---- MODULE Spec2Model ----
(***************************************************************************)
(* A model of codex-lens (src/codex-lens/src/codex_lens): the indexer that *)
(* walks a directory tree and keeps a SQLite store (table files, its FTS5   *)
(* mirror files_fts, table index_stats), and the search engine that reads   *)
(* the store.                                                               *)
(*                                                                          *)
(* Text is modelled by tuples: a file name is the tuple of its dot-split    *)
(* segments ("x.min.js" is <<"x", ".min", ".js">>), a path is the tuple of  *)
(* its components, a file body or a query is the tuple of its characters.   *)
(***************************************************************************)
EXTENDS Integers, Sequences, FiniteSets, TLC

(***************************************************************************)
(* Bounds of the model.                                                     *)
(***************************************************************************)
\* AUTOINCREMENT ids that the files table hands out; the model stops at the
\* upsert that would need one more.
MaxId == 3
\* The longest query, in characters, that the search model draws.
MaxQueryLen == 2
\* The largest `limit` that the search model draws.
MaxLimit == 2

(***************************************************************************)
(* models.py: LANGUAGE_MAP and DEFAULT_IGNORE_PATTERNS.                     *)
(***************************************************************************)
LANGUAGE_MAP ==
    (".py" :> "python") @@ (".js" :> "javascript") @@ (".ts" :> "typescript") @@
    (".tsx" :> "typescript") @@ (".jsx" :> "javascript") @@ (".java" :> "java") @@
    (".c" :> "c") @@ (".cpp" :> "cpp") @@ (".cc" :> "cpp") @@ (".h" :> "c") @@
    (".hpp" :> "cpp") @@ (".go" :> "go") @@ (".rs" :> "rust") @@ (".rb" :> "ruby") @@
    (".php" :> "php") @@ (".swift" :> "swift") @@ (".kt" :> "kotlin") @@
    (".scala" :> "scala") @@ (".cs" :> "csharp") @@ (".m" :> "objectivec") @@
    (".sh" :> "shell") @@ (".bash" :> "shell") @@ (".zsh" :> "shell") @@
    (".ps1" :> "powershell") @@ (".sql" :> "sql") @@ (".html" :> "html") @@
    (".css" :> "css") @@ (".scss" :> "scss") @@ (".less" :> "less") @@
    (".json" :> "json") @@ (".yaml" :> "yaml") @@ (".yml" :> "yaml") @@
    (".xml" :> "xml") @@ (".md" :> "markdown") @@ (".toml" :> "toml") @@
    (".ini" :> "ini") @@ (".cfg" :> "ini") @@ (".vue" :> "vue") @@
    (".svelte" :> "svelte")

\* The closed table of language tags.
LanguageTags == {LANGUAGE_MAP[s] : s \in DOMAIN LANGUAGE_MAP}

\* A pattern is a literal name, or "*" followed by a literal tail.
Lit(name) == [glob |-> FALSE, segs |-> name]
Glob(tail) == [glob |-> TRUE, segs |-> tail]

DEFAULT_IGNORE_PATTERNS ==
    << Lit(<<"node_modules">>), Lit(<<"__pycache__">>), Lit(<<"", ".git">>),
       Lit(<<"", ".svn">>), Lit(<<"", ".hg">>), Lit(<<"venv">>), Lit(<<"", ".venv">>),
       Lit(<<"env">>), Lit(<<"", ".env">>), Lit(<<"dist">>), Lit(<<"build">>),
       Lit(<<"target">>), Lit(<<"", ".idea">>), Lit(<<"", ".vscode">>),
       Glob(<<".pyc">>), Glob(<<".pyo">>), Glob(<<".class">>), Glob(<<".o">>),
       Glob(<<".so">>), Glob(<<".dll">>), Glob(<<".exe">>), Glob(<<".min", ".js">>),
       Glob(<<".min", ".css">>), Lit(<<"package-lock", ".json">>),
       Lit(<<"yarn", ".lock">>), Lit(<<"pnpm-lock", ".yaml">>),
       Lit(<<"Cargo", ".lock">>), Glob(<<".map">>) >>

(***************************************************************************)
(* The directory tree under the indexing root: the candidate paths and the  *)
(* bodies a file can have.                                                  *)
(***************************************************************************)
NoFile == [kind |-> "absent", content |-> <<>>]
Unreadable == [kind |-> "unreadable", content |-> <<>>]
File(content) == [kind |-> "file", content |-> content]

PathTop == << <<"A", ".PY">> >>
PathNested == << <<"a">>, <<"node_modules">>, <<"b", ".js">> >>
PathIgnoredDir == << <<"node_modules">>, <<"foo">>, <<"bar", ".js">> >>
PathUnknown == << <<"notes", ".txt">> >>
PathMinified == << <<"x", ".min", ".js">> >>

Paths == {PathTop, PathNested, PathIgnoredDir, PathUnknown, PathMinified}

Body1 == <<"x">>
Body2 == <<"y", "\n">>
Bodies == {Body1, Body2}

\* What the file system can hold at each candidate path.
FileStates(p) ==
    IF p \in {PathTop, PathNested}
    THEN {File(c) : c \in Bodies} \cup {NoFile, Unreadable}
    ELSE {File(Body1)}

(***************************************************************************)
(* Pure helpers.                                                            *)
(***************************************************************************)
RECURSIVE SumSeq(_)
SumSeq(s) == IF s = <<>> THEN 0 ELSE s[1] + SumSeq(Tail(s))

Min(a, b) == IF a <= b THEN a ELSE b
Max(a, b) == IF a >= b THEN a ELSE b

\* str.lower() on a suffix.
Lower(s) ==
    CASE s = ".JS" -> ".js"
      [] s = ".PY" -> ".py"
      [] OTHER -> s

\* pathlib's Path.suffix: the last dot segment, unless the only dot leads the name.
Suffix(name) ==
    IF Len(name) < 2 \/ (Len(name) = 2 /\ name[1] = "") THEN ""
    ELSE name[Len(name)]

\* CodeIndexer._detect_language
DetectLanguage(path) ==
    LET s == Lower(Suffix(path[Len(path)]))
    IN IF s \in DOMAIN LANGUAGE_MAP THEN LANGUAGE_MAP[s] ELSE "unknown"

\* Whether the tuple of segments `name` ends with `tail`.
EndsWith(name, tail) ==
    /\ Len(name) >= Len(tail)
    /\ SubSeq(name, Len(name) - Len(tail) + 1, Len(name)) = tail

\* fnmatch.fnmatch(string, pattern) where `string` is a path string given as its
\* components: a literal pattern has no "/" and matches only that exact string;
\* "*tail" matches every string that ends with tail ("*" also matches "/").
Fnmatch(string, pattern) ==
    IF pattern.glob
    THEN Len(string) >= 1 /\ EndsWith(string[Len(string)], pattern.segs)
    ELSE string = <<pattern.segs>>

\* str(parent) == pattern
StrEq(string, pattern) == ~pattern.glob /\ string = <<pattern.segs>>

\* Path.parents of a relative path as strings: every proper prefix, then ".".
DotDir == << <<"", ".">> >>
Parents(rel) == {SubSeq(rel, 1, k) : k \in 1..(Len(rel) - 1)} \cup {DotDir}

\* CodeIndexer._should_ignore
ShouldIgnore(rel, patterns) ==
    \E i \in DOMAIN patterns :
        \/ Fnmatch(<<rel[Len(rel)]>>, patterns[i])
        \/ Fnmatch(rel, patterns[i])
        \/ \E parent \in Parents(rel) :
              Fnmatch(parent, patterns[i]) \/ StrEq(parent, patterns[i])

\* One character's byte value.
Code(ch) ==
    CASE ch = "x" -> 120
      [] ch = "y" -> 121
      [] ch = "\n" -> 10
      [] ch = "a" -> 97
      [] ch = "A" -> 65
      [] ch = " " -> 32
      [] ch = "\"" -> 34
      [] ch = "(" -> 40
      [] ch = "{" -> 123
      [] ch = "%" -> 37
      [] ch = "_" -> 95
      [] OTHER -> 63

\* hashlib.sha256(content.encode()).hexdigest()[:16], as a 16-bit digest that,
\* like the real one, tells the bodies of the model apart.
RECURSIVE Digest(_, _)
Digest(content, h) ==
    IF content = <<>> THEN h
    ELSE Digest(Tail(content), (h * 31 + Code(Head(content))) % 65536)

Sha256Hex16(content) == Digest(content, 7)

\* content.count("\n") + 1
LineCount(content) == Cardinality({i \in DOMAIN content : content[i] = "\n"}) + 1

(***************************************************************************)
(* State.                                                                   *)
(***************************************************************************)
VARIABLES
    tree,           \* the file system under the root: path -> file state
    files,          \* table files: a set of rows
    files_fts,      \* what the FTS5 index of files_fts holds: a set of entries
    next_id,        \* the next AUTOINCREMENT id of table files
    index_stats,    \* table index_stats: a set of key/value rows
    pc,             \* "idle", or "indexing" inside index_directory's loop
    scan,           \* index_directory: the files of the scan not yet processed
    stats,          \* index_directory: the IndexStats being accumulated
    languages,      \* index_directory: the per-language counters
    indexed_count,  \* index_directory: files saved in this pass
    skipped_count,  \* index_directory: files skipped in this pass
    returned,       \* <<s>>: the IndexStats the last completed pass returned
    upserts,        \* _save_file calls of the pass in progress
    dirty,          \* the tree was changed since the pass in progress began
    history         \* the last (up to two) consecutive passes over an unchanged tree

storeVars == <<files, files_fts, next_id, index_stats>>
passVars == <<pc, scan, stats, languages, indexed_count, skipped_count>>
ghostVars == <<returned, upserts, dirty, history>>

VARIABLES
    ignore,         \* the patterns of `index --ignore`, <<>> when the option is not given
    db_exists,      \* the database file code.db exists in the index directory
    mtime,          \* the file system: path -> st_mtime of what is at the path
    stats_writes,   \* _save_stats calls of the pass in progress or, when idle, of the last one
    cleared,        \* clear_index has run and no index_directory pass has begun since
    call_error,     \* <<e>>: the error that the last call on the indexer raised
    swallowed,      \* storage errors that the pass in progress counted as skipped files
    latest          \* per path, the content of its last upsert not followed by a delete

configVars == <<ignore, db_exists, mtime>>
callVars == <<stats_writes, cleared, call_error, swallowed, latest>>

VARIABLES
    processed,      \* the files whose iteration the pass in progress has completed, in order
    pass_upserted,  \* the paths that the pass in progress has upserted
    aborted,        \* <<S>>: the last pass was aborted after completing the iterations of
                    \* the paths S, and neither the tree nor the store changed since it began
    before,         \* the store as it was when the pass in progress began
    view            \* <<v>>: what the last read of a concurrent reader saw

traceVars == <<processed, pass_upserted, aborted, before, view>>
indexerVars == <<tree, storeVars, passVars, ghostVars, configVars, callVars, traceVars>>

VARIABLES
    query,          \* search: the user's query, a tuple of characters
    limit,          \* search: the limit
    language,       \* search: the language filter, <<>> for None
    path_filter,    \* search: the path filter, <<>> for None
    search_pc,      \* "off" (indexer runs), "ready", "done" (search returned),
                    \* "symbol_done" (search_symbol returned), "extracted"
                    \* (_find_matches returned) or "sanitized" (_prepare_fts_query
                    \* returned)
    search_mode,    \* the mode of the SearchEngine that ran
    backend,        \* the semantic backend met by the search that ran
    outcome,        \* what search() did: the results returned, or the error raised
    fulltext_results, \* _hybrid_search: the list from the Full-Text Planner
    semantic_results, \* _hybrid_search: the list from _semantic_search
    scores,         \* _hybrid_search: the fused scores, in insertion order
    symbol,         \* search_symbol: the symbol searched for
    symbol_type,    \* search_symbol: the symbol type, <<>> for None
    storage_fault,  \* <<m>>: the error, not about the query, that the store raised
                    \* under cursor.execute of the full-text search that ran
    match_content,  \* _find_matches: the content it is called with
    applied         \* <<v>>: what _find_matches or _prepare_fts_query returned

searchVars == <<query, limit, language, path_filter, search_pc, search_mode, backend,
                outcome, fulltext_results, semantic_results, scores, symbol, symbol_type,
                storage_fault, match_content, applied>>

\* datetime.now(): the instants of the model, each a second and a microsecond.
Instants == {[sec |-> 1, us |-> 0], [sec |-> 1, us |-> 250]}

\* models.py IndexStats(): the dataclass defaults. An Optional is <<>> (None)
\* or a one-element tuple.
NewIndexStats ==
    [total_files |-> 0, total_lines |-> 0, total_size |-> 0, languages |-> <<>>,
     last_indexed |-> <<>>, index_version |-> "1.0"]

\* A variant of NewIndexedFile whose fingerprint is taken before the content
\* is set.
NewIndexedFileEarlyHash(path, content, lang, size, last_modified) ==
    [path |-> path, content |-> content, language |-> lang, size |-> size,
     last_modified |-> last_modified, content_hash |-> Sha256Hex16(<<>>)]

\* models.py IndexedFile(...) with __post_init__: index_file passes no
\* content_hash, so the fingerprint is computed from the content.
NewIndexedFile(path, content, lang, size, last_modified) ==
    [path |-> path, content |-> content, language |-> lang, size |-> size,
     last_modified |-> last_modified, content_hash |-> Sha256Hex16(content)]

(***************************************************************************)
(* The store: the triggers of _init_database and the statements that the    *)
(* indexer runs.                                                            *)
(***************************************************************************)
\* A variant of files_ai that leaves the mirror as it is.
files_aiNothing(fts, new) == fts

\* Trigger files_ai: AFTER INSERT ON files.
files_ai(fts, new) ==
    fts \cup {[rowid |-> new.id, path |-> new.path, content |-> new.content,
               language |-> new.language]}

\* Trigger files_ad: AFTER DELETE ON files (the FTS5 'delete' command).
files_ad(fts, old) ==
    fts \ {[rowid |-> old.id, path |-> old.path, content |-> old.content,
            language |-> old.language]}

RECURSIVE FireAll(_, _)
FireAll(fts, rows) ==
    IF rows = {} THEN fts
    ELSE LET r == CHOOSE x \in rows : TRUE
         IN FireAll(files_ad(fts, r), rows \ {r})

\* What the REPLACE conflict resolution of INSERT OR REPLACE does to the
\* mirror when it deletes the row that holds the path: the connection of
\* _save_file leaves recursive_triggers off, so files_ad does not fire.
ReplaceConflict(fts, old) == fts

\* CodeIndexer._get_file_hash: <<>> is None.
GetFileHash(path) ==
    IF \E r \in files : r.path = path
    THEN <<(CHOOSE r \in files : r.path = path).content_hash>>
    ELSE <<>>

\* The row that _save_file binds to INSERT OR REPLACE INTO files.
RowOf(indexed_file, id) ==
    [id |-> id, path |-> indexed_file.path, content |-> indexed_file.content,
     language |-> indexed_file.language, size |-> indexed_file.size,
     last_modified |-> indexed_file.last_modified,
     content_hash |-> indexed_file.content_hash]

\* A variant of SaveFile that inserts a row and deletes none.
SaveFileNoReplace(indexed_file) ==
    LET new == RowOf(indexed_file, next_id)
    IN /\ files' = files \cup {new}
       /\ files_fts' = files_ai(files_fts, new)
       /\ next_id' = next_id + 1

\* CodeIndexer._save_file: INSERT OR REPLACE by path, then the insert trigger.
SaveFile(indexed_file) ==
    LET old == {r \in files : r.path = indexed_file.path}
        new == RowOf(indexed_file, next_id)
    IN /\ files' = (files \ old) \cup {new}
       /\ files_fts' = files_ai(IF old = {} THEN files_fts
                                 ELSE ReplaceConflict(files_fts, CHOOSE r \in old : TRUE),
                                 new)
       /\ next_id' = next_id + 1

\* CodeIndexer.remove_file: DELETE FROM files WHERE path = ?, firing files_ad.
RemoveFileRows(path) ==
    LET old == {r \in files : r.path = path}
    IN /\ files' = files \ old
       /\ files_fts' = FireAll(files_fts, old)

\* A variant of IsoFormat that writes whole seconds only.
IsoFormatSeconds(dt) == <<dt.sec>>

\* IndexStats.to_dict and json.dumps: the JSON object as its list of members;
\* a datetime is written by isoformat(), which leaves out a zero microsecond.
IsoFormat(dt) == IF dt.us = 0 THEN <<dt.sec>> ELSE <<dt.sec, dt.us>>

RECURSIVE DumpMap(_)
DumpMap(m) ==
    IF DOMAIN m = {} THEN <<>>
    ELSE LET k == CHOOSE x \in DOMAIN m : TRUE
         IN <<<<k, m[k]>>>> \o DumpMap([x \in (DOMAIN m) \ {k} |-> m[x]])

ToDict(s) ==
    << <<"total_files", s.total_files>>, <<"total_lines", s.total_lines>>,
       <<"total_size", s.total_size>>, <<"languages", DumpMap(s.languages)>>,
       <<"last_indexed",
         IF s.last_indexed = <<>> THEN <<>> ELSE <<IsoFormat(s.last_indexed[1])>> >>,
       <<"index_version", s.index_version>> >>

\* CodeIndexer._save_stats: INSERT OR REPLACE INTO index_stats by key.
SaveStats(s) ==
    index_stats' = {r \in index_stats : r.key # "stats"}
                      \cup {[key |-> "stats", value |-> ToDict(s)]}

\* json.loads and dict.get(key, default) on the members of a JSON object.
HasKey(members, key) == \E i \in DOMAIN members : members[i][1] = key
Get(members, key) == members[CHOOSE i \in DOMAIN members : members[i][1] = key][2]
GetOr(members, key, default) == IF HasKey(members, key) THEN Get(members, key) ELSE default

LoadMap(members) ==
    [k \in {members[i][1] : i \in DOMAIN members} |-> Get(members, k)]

\* datetime.fromisoformat
FromIsoFormat(t) == [sec |-> t[1], us |-> IF Len(t) >= 2 THEN t[2] ELSE 0]

\* CodeIndexer.get_stats: <<>> is None.
GetStats ==
    IF \E r \in index_stats : r.key = "stats"
    THEN LET data == (CHOOSE r \in index_stats : r.key = "stats").value
         IN <<[total_files |-> GetOr(data, "total_files", 0),
               total_lines |-> GetOr(data, "total_lines", 0),
               total_size |-> GetOr(data, "total_size", 0),
               languages |-> LoadMap(GetOr(data, "languages", <<>>)),
               last_indexed |->
                   IF GetOr(data, "last_indexed", <<>>) # <<>>
                   THEN <<FromIsoFormat(Get(data, "last_indexed")[1])>>
                   ELSE <<>>,
               index_version |-> GetOr(data, "index_version", "1.0")]>>
    ELSE <<>>

\* The paths of the model in the order of `ORDER BY path` (the BINARY
\* collation puts "A" before "a" and "nod" before "not").
PathsInOrder ==
    << << <<"A", ".PY">> >>,
       << <<"a">>, <<"node_modules">>, <<"b", ".js">> >>,
       << <<"lib">>, <<"c", ".py">> >>,
       << <<"node_modules">>, <<"foo">>, <<"bar", ".js">> >>,
       << <<"notes", ".txt">> >>,
       << <<"x", ".min", ".js">> >> >>

\* CodeIndexer.get_indexed_files: `lang` is <<>> for None.
GetIndexedFiles(lang) ==
    SelectSeq(PathsInOrder,
              LAMBDA p : \E r \in files : r.path = p /\ (lang # <<>> => r.language = lang[1]))

(***************************************************************************)
(* The indexer.                                                             *)
(***************************************************************************)
\* cli.py index: `list(ignore) if ignore else None`, and CodeIndexer.__init__:
\* `ignore_patterns or DEFAULT_IGNORE_PATTERNS`.
ignore_patterns == IF ignore # <<>> THEN ignore ELSE DEFAULT_IGNORE_PATTERNS

\* A variant of ScanFiles without the test of the suffix.
ScanFilesAnySuffix ==
    {p \in Paths : tree[p].kind # "absent" /\ ~ShouldIgnore(p, ignore_patterns)}

\* CodeIndexer._scan_files: the regular files under the root that are not
\* ignored and whose lowercased suffix is in LANGUAGE_MAP.
ScanFiles ==
    {p \in Paths :
        /\ tree[p].kind # "absent"
        /\ ~ShouldIgnore(p, ignore_patterns)
        /\ Lower(Suffix(p[Len(p)])) \in DOMAIN LANGUAGE_MAP}

\* The orders in which rglob can yield a set of files.
Orders(S) ==
    {o \in [1..Cardinality(S) -> S] : \A i, j \in DOMAIN o : i # j => o[i] # o[j]}

\* A variant of IndexFile that does not compare fingerprints.
IndexFileNoSkip(path) ==
    IF tree[path].kind # "file" THEN <<>>
    ELSE <<NewIndexedFile(path, tree[path].content, DetectLanguage(path),
                          Len(tree[path].content), mtime[path])>>

\* A variant of IndexFile that skips a file when the stored modification
\* time equals the file's.
IndexFileByMtime(path) ==
    IF tree[path].kind # "file" THEN <<>>
    ELSE IF \E r \in files : r.path = path /\ r.last_modified = mtime[path] THEN <<>>
    ELSE <<NewIndexedFile(path, tree[path].content, DetectLanguage(path),
                          Len(tree[path].content), mtime[path])>>

\* CodeIndexer.index_file: <<>> is None (an unreadable or vanished file, or a
\* file whose stored fingerprint equals the fingerprint of its content).
IndexFile(path) ==
    IF tree[path].kind # "file" THEN <<>>
    ELSE LET content == tree[path].content
             indexed_file == NewIndexedFile(path, content, DetectLanguage(path),
                                            Len(content), mtime[path])
         IN IF GetFileHash(path) = <<indexed_file.content_hash>> THEN <<>>
            ELSE <<indexed_file>>

\* The `directory` arguments of index_directory: the root of the tree, a
\* regular file, and a path where nothing is.
RootDir == "root"
RootFile == "root/A.PY"
RootMissing == "nowhere"
Roots == {RootDir, RootFile, RootMissing}

\* The directories of the file system.
Directories == {RootDir}

\* A variant of IsDir that takes every path for a directory.
IsDirAlways(root) == TRUE

\* Path(directory).resolve().is_dir()
IsDir(root) == root \in Directories

\* root.rglob("*") under a path that is no directory yields nothing.
FilesUnder(root) == IF root \in Directories THEN ScanFiles ELSE {}

\* The errors of the indexer's calls.
NotADirectory == "ValueError: Not a directory"
StorageError == "sqlite3.OperationalError"
Interrupted == "KeyboardInterrupt"

\* A variant of LoopDone that lets the pass end with files left.
LoopDoneAlways == TRUE

\* The for loop of index_directory has gone through the whole list.
LoopDone == scan = <<>>

\* The (path, content) pairs after an upsert and after a delete of `path`.
Upserted(pairs, path, content) ==
    {x \in pairs : x.path # path} \cup {[path |-> path, content |-> content]}
Deleted(pairs, path) == {x \in pairs : x.path # path}

\* The store as a reader sees it: the rows of files, the index of files_fts
\* and the rows of index_stats.
Snapshot == [files |-> files, files_fts |-> files_fts, next_id |-> next_id,
             index_stats |-> index_stats]
NoSnapshot == [files |-> {}, files_fts |-> {}, next_id |-> 0, index_stats |-> {}]

Range(seq) == {seq[i] : i \in DOMAIN seq}

\* No pass has begun and no reader has read.
TraceInit ==
    /\ processed = <<>>
    /\ pass_upserted = {}
    /\ aborted = <<>>
    /\ before = NoSnapshot
    /\ view = <<>>

\* What `index --ignore` can be given: nothing, or one pattern.
IgnoreOptions == {<<>>, <<Lit(<<"a">>)>>, <<Glob(<<".PY">>)>>}

\* The state of a CodeIndexer after construction with one of `options`:
\* code.db holds the three empty tables.
IndexerInitWith(options) ==
    /\ tree \in [Paths -> UNION {FileStates(p) : p \in Paths}]
    /\ \A p \in Paths : tree[p] \in FileStates(p)
    /\ files = {}
    /\ files_fts = {}
    /\ next_id = 1
    /\ index_stats = {}
    /\ pc = "idle"
    /\ scan = <<>>
    /\ stats = NewIndexStats
    /\ languages = <<>>
    /\ indexed_count = 0
    /\ skipped_count = 0
    /\ returned = <<>>
    /\ upserts = 0
    /\ dirty = FALSE
    /\ history = <<>>
    /\ ignore \in options
    /\ db_exists = TRUE
    /\ mtime = [p \in Paths |-> 1]
    /\ stats_writes = 0
    /\ cleared = FALSE
    /\ call_error = <<>>
    /\ swallowed = 0
    /\ latest = {}
    /\ TraceInit

\* A CodeIndexer constructed without ignore patterns of the caller.
IndexerInit == IndexerInitWith({<<>>})

\* The file system changes under the indexer: a file is written, removed or
\* made unreadable.
WriteFile(p, state) ==
    /\ state \in FileStates(p)
    /\ state # tree[p]
    /\ tree' = [tree EXCEPT ![p] = state]
    /\ dirty' = (pc = "indexing")
    /\ history' = <<>>
    /\ aborted' = <<>>
    /\ UNCHANGED <<storeVars, passVars, returned, upserts, configVars, callVars>>
    /\ UNCHANGED <<processed, pass_upserted, before, view>>
    /\ UNCHANGED searchVars

\* The paths whose file is touched in the model.
TouchPaths == {PathTop}

\* The file system changes under the indexer: the modification time of a file
\* changes and its content does not (a copy, a checkout, touch).
Touch(p) ==
    /\ p \in TouchPaths
    /\ tree[p].kind = "file"
    /\ mtime' = [mtime EXCEPT ![p] = 3 - @]
    /\ dirty' = (pc = "indexing")
    /\ history' = <<>>
    /\ aborted' = <<>>
    /\ UNCHANGED <<tree, storeVars, passVars, returned, upserts, ignore, db_exists, callVars>>
    /\ UNCHANGED <<processed, pass_upserted, before, view>>
    /\ UNCHANGED searchVars

\* index_directory up to its loop: a `directory` that is no directory raises
\* ValueError; otherwise the scan is materialized and the accumulators start
\* empty.
IndexDirectoryScan(root) ==
    /\ pc = "idle"
    /\ db_exists
    /\ IF ~IsDir(root)
       THEN /\ call_error' = <<NotADirectory>>
            /\ UNCHANGED <<passVars, upserts, dirty, stats_writes, cleared, swallowed>>
            /\ UNCHANGED <<processed, pass_upserted, before>>
       ELSE /\ scan' \in Orders(FilesUnder(root))
            /\ pc' = "indexing"
            /\ stats' = NewIndexStats
            /\ languages' = <<>>
            /\ indexed_count' = 0
            /\ skipped_count' = 0
            /\ upserts' = 0
            /\ dirty' = FALSE
            /\ stats_writes' = 0
            /\ cleared' = FALSE
            /\ call_error' = <<>>
            /\ swallowed' = 0
            /\ processed' = <<>>
            /\ pass_upserted' = {}
            /\ before' = Snapshot
    /\ UNCHANGED <<tree, storeVars, returned, history, configVars, latest, aborted, view>>
    /\ UNCHANGED searchVars

\* One iteration of index_directory's loop.
IndexDirectoryStep ==
    /\ pc = "indexing"
    /\ scan # <<>>
    /\ LET indexed_file == IndexFile(Head(scan))
       IN IF indexed_file # <<>>
          THEN /\ next_id <= MaxId
               /\ SaveFile(indexed_file[1])
               /\ indexed_count' = indexed_count + 1
               /\ stats' = [stats EXCEPT
                      !.total_lines = @ + LineCount(indexed_file[1].content),
                      !.total_size = @ + indexed_file[1].size]
               /\ languages' =
                      LET lang == indexed_file[1].language
                          n == IF lang \in DOMAIN languages THEN languages[lang] ELSE 0
                      IN (lang :> n + 1) @@ languages
               /\ upserts' = upserts + 1
               /\ latest' = Upserted(latest, indexed_file[1].path, indexed_file[1].content)
               /\ pass_upserted' = pass_upserted \cup {indexed_file[1].path}
               /\ UNCHANGED skipped_count
          ELSE /\ skipped_count' = skipped_count + 1
               /\ UNCHANGED <<files, files_fts, next_id, indexed_count, stats,
                              languages, upserts, latest, pass_upserted>>
    /\ scan' = Tail(scan)
    /\ processed' = Append(processed, Head(scan))
    /\ UNCHANGED <<tree, index_stats, pc, returned, dirty, history>>
    /\ UNCHANGED <<configVars, stats_writes, cleared, call_error, swallowed>>
    /\ UNCHANGED <<aborted, before, view>>
    /\ UNCHANGED searchVars

\* One iteration in which the store fails under _get_file_hash (the file was
\* read): the except clause of index_file catches the error and returns None,
\* and the loop counts the file as skipped.
IndexDirectoryStepLookupFails ==
    /\ pc = "indexing"
    /\ scan # <<>>
    /\ tree[Head(scan)].kind = "file"
    /\ skipped_count' = skipped_count + 1
    /\ swallowed' = swallowed + 1
    /\ scan' = Tail(scan)
    /\ processed' = Append(processed, Head(scan))
    /\ UNCHANGED <<tree, storeVars, pc, stats, languages, indexed_count, ghostVars>>
    /\ UNCHANGED <<configVars, stats_writes, cleared, call_error, latest>>
    /\ UNCHANGED <<pass_upserted, aborted, before, view>>
    /\ UNCHANGED searchVars

\* What the end of a pass by an error leaves of its trace.
PassAborted ==
    /\ aborted' = IF dirty THEN <<>> ELSE <<Range(processed)>>
    /\ processed' = <<>>
    /\ pass_upserted' = {}
    /\ before' = NoSnapshot
    /\ UNCHANGED view

\* One iteration in which the store fails under _save_file: nothing is
\* committed, the error leaves index_directory and the call is over.
IndexDirectoryStepUpsertFails ==
    /\ pc = "indexing"
    /\ scan # <<>>
    /\ IndexFile(Head(scan)) # <<>>
    /\ call_error' = <<StorageError>>
    /\ pc' = "idle"
    /\ scan' = <<>>
    /\ stats' = NewIndexStats
    /\ languages' = <<>>
    /\ indexed_count' = 0
    /\ skipped_count' = 0
    /\ upserts' = 0
    /\ dirty' = FALSE
    /\ history' = <<>>
    /\ PassAborted
    /\ UNCHANGED <<tree, storeVars, returned>>
    /\ UNCHANGED <<configVars, stats_writes, cleared, swallowed, latest>>
    /\ UNCHANGED searchVars

\* A pass that the caller aborts inside the loop (KeyboardInterrupt is no
\* Exception, so no handler of the indexer catches it): the call is over, no
\* statistics were written and what _save_file committed stays.
IndexDirectoryAbort ==
    /\ pc = "indexing"
    /\ scan # <<>>
    /\ call_error' = <<Interrupted>>
    /\ pc' = "idle"
    /\ scan' = <<>>
    /\ stats' = NewIndexStats
    /\ languages' = <<>>
    /\ indexed_count' = 0
    /\ skipped_count' = 0
    /\ upserts' = 0
    /\ dirty' = FALSE
    /\ history' = <<>>
    /\ PassAborted
    /\ UNCHANGED <<tree, storeVars, returned>>
    /\ UNCHANGED <<configVars, stats_writes, cleared, swallowed, latest>>
    /\ UNCHANGED searchVars

\* The four statistics that a pass over an unchanged tree is compared on.
Summary(s, n) ==
    [total_files |-> s.total_files, total_lines |-> s.total_lines,
     total_size |-> s.total_size, languages |-> s.languages, upserts |-> n]

\* index_directory after its loop: the statistics are completed, saved and
\* returned, and the locals of the call are gone.
IndexDirectoryFinish ==
    /\ pc = "indexing"
    /\ LoopDone
    /\ \E now \in Instants :
          LET final == [stats EXCEPT !.total_files = indexed_count,
                                     !.languages = languages,
                                     !.last_indexed = <<now>>]
          IN /\ SaveStats(final)
             /\ returned' = <<final>>
             /\ history' = IF dirty THEN <<>>
                           ELSE IF Len(history) < 2
                                THEN Append(history, Summary(final, upserts))
                                ELSE <<history[2], Summary(final, upserts)>>
    /\ stats_writes' = stats_writes + 1
    /\ pc' = "idle"
    /\ stats' = NewIndexStats
    /\ languages' = <<>>
    /\ indexed_count' = 0
    /\ skipped_count' = 0
    /\ upserts' = 0
    /\ dirty' = FALSE
    /\ aborted' = <<>>
    /\ processed' = <<>>
    /\ pass_upserted' = {}
    /\ before' = NoSnapshot
    /\ UNCHANGED <<tree, files, files_fts, next_id, scan, view>>
    /\ UNCHANGED <<configVars, cleared, call_error, swallowed, latest>>
    /\ UNCHANGED searchVars

\* CodeIndexer.remove_file
RemoveFile(path) ==
    /\ pc = "idle"
    /\ db_exists
    /\ RemoveFileRows(path)
    /\ history' = <<>>
    /\ latest' = Deleted(latest, path)
    /\ call_error' = <<>>
    /\ UNCHANGED <<tree, next_id, index_stats, passVars, returned, upserts, dirty>>
    /\ aborted' = <<>>
    /\ UNCHANGED <<configVars, stats_writes, cleared, swallowed>>
    /\ UNCHANGED <<processed, pass_upserted, before, view>>
    /\ UNCHANGED searchVars

\* CodeIndexer.clear_index: DELETE FROM files fires files_ad for every row;
\* DELETE FROM files_fts then finds no row left in the content table, so it
\* removes nothing more from the index; DELETE FROM index_stats.
ClearIndex ==
    /\ pc = "idle"
    /\ db_exists
    /\ files' = {}
    /\ files_fts' = FireAll(files_fts, files)
    /\ index_stats' = {}
    /\ returned' = <<>>
    /\ history' = <<>>
    /\ cleared' = TRUE
    /\ latest' = {}
    /\ call_error' = <<>>
    /\ UNCHANGED <<tree, next_id, passVars, upserts, dirty>>
    /\ aborted' = <<>>
    /\ UNCHANGED <<configVars, stats_writes, swallowed>>
    /\ UNCHANGED <<processed, pass_upserted, before, view>>
    /\ UNCHANGED searchVars

\* A reader (search, stats, list-files) opens its own connection and reads
\* the store while the indexer may be inside a pass: it sees what has been
\* committed.
ReadStore ==
    /\ db_exists
    /\ view' = <<Snapshot>>
    /\ UNCHANGED <<tree, storeVars, passVars, ghostVars, configVars, callVars>>
    /\ UNCHANGED <<processed, pass_upserted, aborted, before>>
    /\ UNCHANGED searchVars

IndexerNext ==
    \/ \E p \in Paths : \E state \in FileStates(p) : WriteFile(p, state)
    \/ \E root \in Roots : IndexDirectoryScan(root)
    \/ IndexDirectoryStep
    \/ IndexDirectoryFinish
    \/ \E p \in Paths : RemoveFile(p)
    \/ ClearIndex

(***************************************************************************)
(* The search engine (search.py). Scores are rationals [n, d]; Python's      *)
(* floats agree with them on every comparison the model makes.              *)
(***************************************************************************)
Rat(n, d) == [n |-> n, d |-> d]
RatAdd(a, b) == Rat(a.n * b.d + b.n * a.d, a.d * b.d)
RatGreater(a, b) == a.n * b.d > b.n * a.d

\* The characters of the queries and bodies of the search model.
QueryChars == {"a", " ", "\"", "(", "{", "%"}

RECURSIVE Strings(_, _)
Strings(chars, n) ==
    IF n = 0 THEN {<<>>}
    ELSE LET shorter == Strings(chars, n - 1)
         IN shorter \cup {Append(t, c) : t \in {u \in shorter : Len(u) = n - 1},
                                          c \in chars}

\* str.lower() on one character.
LowerChar(ch) == IF ch = "A" THEN "a" ELSE ch
LowerStr(t) == [i \in DOMAIN t |-> LowerChar(t[i])]

IsSpace(ch) == ch \in {" ", "\t", "\n"}

\* str.replace(old, new) for a one-character old.
RECURSIVE ReplaceChar(_, _, _)
ReplaceChar(t, old, new) ==
    IF t = <<>> THEN <<>>
    ELSE (IF Head(t) = old THEN new ELSE <<Head(t)>>) \o ReplaceChar(Tail(t), old, new)

\* ' '.join(t.split()): runs of whitespace become one space, none at the ends.
RECURSIVE Words(_, _)
Words(t, word) ==
    IF t = <<>> THEN (IF word = <<>> THEN <<>> ELSE <<word>>)
    ELSE IF IsSpace(Head(t))
         THEN (IF word = <<>> THEN <<>> ELSE <<word>>) \o Words(Tail(t), <<>>)
         ELSE Words(Tail(t), Append(word, Head(t)))

RECURSIVE Join(_, _)
Join(parts, sep) ==
    IF parts = <<>> THEN <<>>
    ELSE IF Len(parts) = 1 THEN parts[1]
    ELSE parts[1] \o sep \o Join(Tail(parts), sep)

special_chars == <<"*", "\"", "'", "(", ")", "-", "+", ":", "^", "~">>

\* SearchEngine._prepare_fts_query
PrepareFtsQuery(q) ==
    IF (\E i \in DOMAIN q : q[i] = " ") /\ ~(q # <<>> /\ q[1] = "\"")
    THEN <<"\"">> \o ReplaceChar(q, "\"", <<"\"", "\"">>) \o <<"\"">>
    ELSE LET cleaned == [i \in DOMAIN q |->
                            IF \E k \in DOMAIN special_chars : special_chars[k] = q[i]
                            THEN " " ELSE q[i]]
         IN Join(Words(cleaned, <<>>), <<" ">>)

\* The FTS5 query lexer on the characters of the model: a quoted string (with
\* "" for a quote inside it), a bareword (letters, digits and "_"), "(" and
\* "{". The lexer stops at its first error: "UNTERMINATED" for a string that
\* is not closed, "ILLEGAL" for a character that starts no token.
Fts5BarewordChars == {"a", "A", "x", "y", "_"}

RECURSIVE Fts5String(_)
Fts5String(t) ==
    IF t = <<>> THEN <<"!">>
    ELSE IF Head(t) = "\""
         THEN (IF Len(t) >= 2 /\ t[2] = "\"" THEN Fts5String(Tail(Tail(t)))
               ELSE Tail(t))
         ELSE Fts5String(Tail(t))

RECURSIVE Fts5Bareword(_)
Fts5Bareword(t) ==
    IF t # <<>> /\ Head(t) \in Fts5BarewordChars
    THEN Fts5Bareword(Tail(t)) ELSE t

RECURSIVE Fts5Lex(_)
Fts5Lex(t) ==
    IF t = <<>> THEN <<>>
    ELSE IF IsSpace(Head(t)) THEN Fts5Lex(Tail(t))
    ELSE IF Head(t) = "(" THEN <<"LP">> \o Fts5Lex(Tail(t))
    ELSE IF Head(t) = "{" THEN <<"LCP">> \o Fts5Lex(Tail(t))
    ELSE IF Head(t) = "\""
         THEN LET rest == Fts5String(Tail(t))
              IN IF rest = <<"!">> THEN <<"UNTERMINATED">>
                 ELSE <<"STRING">> \o Fts5Lex(rest)
    ELSE IF Head(t) \in Fts5BarewordChars THEN <<"STRING">> \o Fts5Lex(Fts5Bareword(t))
    ELSE <<"ILLEGAL">>

\* The answer of the full-text engine to `... WHERE files_fts MATCH ?` bound
\* to `fts_query` by cursor.execute: <<>> when the query is accepted, else the
\* message of the sqlite3.OperationalError, as its words. The parser reports
\* the first error it meets: an empty query and a misplaced "(" or "{" are
\* syntax errors; "{" followed by a word that names no column of files_fts is
\* "no such column", found when the token after the word arrives; an error of
\* the lexer is found when its token is read.
Fts5SyntaxError == <<"fts5:", "syntax", "error", "near">>

\* The place of the lexer's error in the tokens, 0 when there is none.
Fts5LexErrorAt(toks) ==
    IF toks # <<>> /\ toks[Len(toks)] \in {"UNTERMINATED", "ILLEGAL"} THEN Len(toks) ELSE 0

\* The error of the parser about the first "{", at position `first`.
Fts5Column(toks, n, first) ==
    IF first < n /\ toks[first + 1] = "STRING"
    THEN [at |-> first + 2, message |-> <<"no", "such", "column:">>]
    ELSE [at |-> first + 1, message |-> Fts5SyntaxError]

\* The error of the parser about the first n tokens, and the token at whose
\* arrival it is raised.
Fts5Grammar(toks, n) ==
    IF \E i \in 1..n : toks[i] = "LCP"
    THEN Fts5Column(toks, n, CHOOSE i \in 1..n :
                                 toks[i] = "LCP" /\ \A j \in 1..(i - 1) : toks[j] # "LCP")
    ELSE IF \E i \in 1..n : toks[i] = "LP"
         THEN [at |-> n + 1, message |-> Fts5SyntaxError]
    ELSE IF n = 0 THEN [at |-> 1, message |-> Fts5SyntaxError]
    ELSE [at |-> n + 2, message |-> <<>>]

Fts5Verdict(toks, lexAt, gram) ==
    IF lexAt > 0 /\ lexAt <= gram.at
    THEN (IF toks[lexAt] = "UNTERMINATED" THEN <<"unterminated", "string">>
          ELSE Fts5SyntaxError)
    ELSE gram.message

Fts5Parse(toks, lexAt) ==
    Fts5Verdict(toks, lexAt, Fts5Grammar(toks, IF lexAt > 0 THEN lexAt - 1 ELSE Len(toks)))

Fts5Match(fts_query) == Fts5Parse(Fts5Lex(fts_query), Fts5LexErrorAt(Fts5Lex(fts_query)))

\* "fts5" in str(e).lower()
MentionsFts5(message) == \E i \in DOMAIN message : message[i] \in {"fts5:", "fts5"}

\* str.split("\n")
RECURSIVE SplitLines(_, _)
SplitLines(t, line) ==
    IF t = <<>> THEN <<line>>
    ELSE IF Head(t) = "\n" THEN <<line>> \o SplitLines(Tail(t), <<>>)
    ELSE SplitLines(Tail(t), Append(line, Head(t)))

\* needle in text
Contains(text, needle) ==
    \E k \in 0..(Len(text) - Len(needle)) : SubSeq(text, k + 1, k + Len(needle)) = needle

\* str.strip()
RECURSIVE LStrip(_)
LStrip(t) == IF t # <<>> /\ IsSpace(Head(t)) THEN LStrip(Tail(t)) ELSE t
RECURSIVE RStrip(_)
RStrip(t) ==
    IF t # <<>> /\ IsSpace(t[Len(t)]) THEN RStrip(SubSeq(t, 1, Len(t) - 1)) ELSE t
Strip(t) == LStrip(RStrip(t))

\* The elements of a set of numbers in increasing order.
RECURSIVE Ascending(_)
Ascending(S) ==
    IF S = {} THEN <<>>
    ELSE LET m == CHOOSE x \in S : \A y \in S : x <= y
         IN <<m>> \o Ascending(S \ {m})

\* A variant of FindMatches whose loop does not stop at three highlights.
FindMatchesNoBreak(content, q) ==
    LET lines == SplitLines(content, <<>>)
        hits == Ascending({i \in DOMAIN lines :
                              Contains(LowerStr(lines[i]), LowerStr(q))})
        last == IF hits = <<>> THEN 0 ELSE hits[Len(hits)]
    IN [line_number |-> last,
        context |-> IF hits = <<>> THEN <<>>
                    ELSE Join(SubSeq(lines, Max(0, last - 1 - 2) + 1,
                                     Min(Len(lines), last - 1 + 2 + 1)), <<"\n">>),
        highlights |-> [k \in DOMAIN hits |-> Strip(lines[hits[k]])]]

\* SearchEngine._find_matches with context_lines = 2: the loop visits the
\* matching lines in order until it has three highlights; each visit
\* overwrites first_match_line and context.
FindMatches(content, q) ==
    LET lines == SplitLines(content, <<>>)
        hits == Ascending({i \in DOMAIN lines :
                              Contains(LowerStr(lines[i]), LowerStr(q))})
        seen == SubSeq(hits, 1, Min(3, Len(hits)))
        last == IF seen = <<>> THEN 0 ELSE seen[Len(seen)]
    IN [line_number |-> last,
        context |-> IF seen = <<>> THEN <<>>
                    ELSE Join(SubSeq(lines, Max(0, last - 1 - 2) + 1,
                                     Min(Len(lines), last - 1 + 2 + 1)), <<"\n">>),
        highlights |-> [k \in DOMAIN seen |-> Strip(lines[seen[k]])]]

\* SQLite's LIKE on ASCII text: "%" matches any run, "_" any one character,
\* letters match whatever their case.
RECURSIVE Like(_, _)
Like(pattern, text) ==
    IF pattern = <<>> THEN text = <<>>
    ELSE IF Head(pattern) = "%"
         THEN \E k \in 0..Len(text) : Like(Tail(pattern), SubSeq(text, k + 1, Len(text)))
         ELSE /\ text # <<>>
              /\ Head(pattern) = "_" \/ LowerChar(Head(pattern)) = LowerChar(Head(text))
              /\ Like(Tail(pattern), Tail(text))

\* str(path): the segments of the components, with "/" between components.
PathStr(path) == Join(path, <<"/">>)

\* The WHERE clauses that both planners build from the filters: language = ?
\* and path LIKE %path_filter% (on a path, one name segment stands for one
\* character).
PassesFilters(r, lang, pfilter) ==
    /\ lang # <<>> => r.language = lang[1]
    /\ pfilter # <<>> => Like(<<"%">> \o pfilter[1] \o <<"%">>, PathStr(r.path))

SearchResult(path, content, score, match_info, search_type) ==
    [path |-> path, content |-> SubSeq(content, 1, Min(500, Len(content))),
     score |-> score, line_number |-> match_info.line_number,
     match_context |-> match_info.context, search_type |-> search_type,
     highlights |-> match_info.highlights]

\* The rows of table files in the order a scan of the table yields them.
RowsById == LET ids == Ascending({r.id : r \in files})
            IN [k \in DOMAIN ids |-> CHOOSE r \in files : r.id = ids[k]]

RECURSIVE SelectSeq2(_, _, _)
SelectSeq2(rows, lang, pfilter) ==
    IF rows = <<>> THEN <<>>
    ELSE (IF PassesFilters(Head(rows), lang, pfilter) THEN <<Head(rows)>> ELSE <<>>)
         \o SelectSeq2(Tail(rows), lang, pfilter)

Returned(results) == [raised |-> <<>>, results |-> results]
Raised(message) == [raised |-> <<message>>, results |-> <<>>]

\* SearchEngine._fallback_search
FallbackSearch(q, lim, lang, pfilter) ==
    LET matching == SelectSeq(SelectSeq2(RowsById, lang, pfilter),
                              LAMBDA r : Like(<<"%">> \o q \o <<"%">>, r.content))
        rows == SubSeq(matching, 1, Min(lim, Len(matching)))
    IN Returned([k \in DOMAIN rows |->
                    SearchResult(rows[k].path, rows[k].content, Rat(1, 1),
                                 FindMatches(rows[k].content, q), "fulltext")])

\* The except clause of _fulltext_search: an OperationalError whose message
\* mentions fts5 is answered by the fallback, any other is raised again.
OnOperationalError(message, q, lim, lang, pfilter) ==
    IF MentionsFts5(message) THEN FallbackSearch(q, lim, lang, pfilter)
    ELSE Raised(message)

\* SearchEngine._fulltext_search. `ranking` is what the engine's MATCH and
\* bm25 make of an accepted query: the matching rows of files with their
\* scores, best (lowest) first.
FulltextSearch(q, lim, lang, pfilter, ranking) ==
    LET message == Fts5Match(PrepareFtsQuery(q))
        hits == SelectSeq(ranking, LAMBDA h : PassesFilters(h.row, lang, pfilter))
        rows == SubSeq(hits, 1, Min(lim, Len(hits)))
    IN IF message = <<>>
       THEN Returned([k \in DOMAIN rows |->
                SearchResult(rows[k].row.path, rows[k].row.content,
                             Rat(IF rows[k].score < 0 THEN -rows[k].score
                                 ELSE rows[k].score, 1),
                             FindMatches(rows[k].row.content, q), "fulltext")])
       ELSE OnOperationalError(message, q, lim, lang, pfilter)

\* SearchEngine._semantic_search. The backend (codex_lens.semantic) is
\* "absent" when its import fails, "throws" when it raises something else,
\* and otherwise answers with `semantic`, its ranked results.
SemanticSearch(q, lim, lang, pfilter, ranking, back, semantic) ==
    IF back = "absent" THEN FulltextSearch(q, lim, lang, pfilter, ranking)
    ELSE IF back = "throws" THEN Raised(<<"semantic">>)
    ELSE Returned(semantic)

\* The RRF constant k of _hybrid_search.
RRF_K == 60

\* rrf_score = 1.0 / (k + rank + 1) for the 0-based rank.
RrfScore(rank) == Rat(1, RRF_K + rank + 1)

\* scores[path] = scores.get(path, 0) + rrf_score, on a dict kept as the list
\* of its items in insertion order.
RECURSIVE Accumulate(_, _, _)
Accumulate(dict, results, k) ==
    IF k > Len(results) THEN dict
    ELSE LET path == results[k].path
             at == {i \in DOMAIN dict : dict[i].path = path}
         IN Accumulate(
                IF at = {}
                THEN Append(dict, [path |-> path, score |-> RatAdd(Rat(0, 1), RrfScore(k - 1))])
                ELSE [i \in DOMAIN dict |->
                         IF i \in at
                         THEN [dict[i] EXCEPT !.score = RatAdd(@, RrfScore(k - 1))]
                         ELSE dict[i]],
                results, k + 1)

\* A variant of SortedByScore that sorts without reverse=True.
RECURSIVE SortedAscending(_)
SortedAscending(dict) ==
    IF dict = <<>> THEN <<>>
    ELSE LET least == CHOOSE i \in DOMAIN dict :
                        /\ \A j \in DOMAIN dict : ~RatGreater(dict[i].score, dict[j].score)
                        /\ \A j \in 1..(i - 1) : RatGreater(dict[j].score, dict[i].score)
         IN <<dict[least]>> \o
            SortedAscending(SubSeq(dict, 1, least - 1) \o SubSeq(dict, least + 1, Len(dict)))

\* sorted(items, key=score, reverse=True): stable, so equal scores keep their
\* insertion order.
RECURSIVE SortedByScore(_)
SortedByScore(dict) ==
    IF dict = <<>> THEN <<>>
    ELSE LET best == CHOOSE i \in DOMAIN dict :
                        /\ \A j \in DOMAIN dict : ~RatGreater(dict[j].score, dict[i].score)
                        /\ \A j \in 1..(i - 1) : RatGreater(dict[i].score, dict[j].score)
         IN <<dict[best]>> \o
            SortedByScore(SubSeq(dict, 1, best - 1) \o SubSeq(dict, best + 1, Len(dict)))

\* The first result of `results` for `path`.
FirstFor(results, path) ==
    results[CHOOSE i \in DOMAIN results :
                results[i].path = path /\ \A j \in 1..(i - 1) : results[j].path # path]

\* The part of _hybrid_search after both lists are there: the fused scores,
\* and the results built from them.
FusedScores(fulltext, semantic) == Accumulate(Accumulate(<<>>, fulltext, 1), semantic, 1)

Fuse(fulltext, semantic, lim) ==
    LET sorted == SortedByScore(FusedScores(fulltext, semantic))
        top == SubSeq(sorted, 1, Min(lim, Len(sorted)))
        results_list == fulltext \o semantic
    IN [k \in DOMAIN top |->
           [FirstFor(results_list, top[k].path) EXCEPT
               !.score = top[k].score, !.search_type = "hybrid"]]

\* SearchEngine._hybrid_search
HybridSearch(q, lim, lang, pfilter, ranking, back, semantic) ==
    LET ft == FulltextSearch(q, lim * 2, lang, pfilter, ranking)
        sem == SemanticSearch(q, lim * 2, lang, pfilter, ranking, back, semantic)
    IN IF ft.raised # <<>> THEN ft
       ELSE IF sem.raised # <<>>
            THEN Returned(SubSeq(ft.results, 1, Min(lim, Len(ft.results))))
       ELSE Returned(Fuse(ft.results, sem.results, lim))

\* A pattern of search_symbol: an optional keyword (one of `keywords`, in
\* the order of the alternation) followed by \s+, then the escaped symbol,
\* \s*, and one of `closers`.
SymbolPattern(keywords, closers) == [keywords |-> keywords, closers |-> closers]

\* search_symbol's dictionary `patterns`, in the order of its keys.
SymbolPatternNames == <<"function", "class", "variable">>
SymbolPatterns ==
    [function |->
        << SymbolPattern(<<<<"d", "e", "f">>>>, <<<<"(">>>>),
           SymbolPattern(<<<<"f", "u", "n", "c", "t", "i", "o", "n">>>>, <<<<"(">>>>),
           SymbolPattern(<<<<"f", "u", "n", "c">>>>, <<<<"(">>>>),
           SymbolPattern(<<<<"f", "n">>>>, <<<<"(">>>>) >>,
     class |->
        << SymbolPattern(<<<<"c", "l", "a", "s", "s">>>>, <<<<":">>, <<"(">>>>),
           SymbolPattern(<<<<"s", "t", "r", "u", "c", "t">>>>, <<<<"{">>>>),
           SymbolPattern(<<<<"i", "n", "t", "e", "r", "f", "a", "c", "e">>>>, <<<<"{">>>>) >>,
     variable |->
        << SymbolPattern(<< <<"c", "o", "n", "s", "t">>, <<"l", "e", "t">>,
                            <<"v", "a", "r">> >>, <<<<"=">>>>),
           SymbolPattern(<<>>, <<<<":", "=">>>>),
           SymbolPattern(<<<<"l", "e", "t">>, <<"c", "o", "n", "s", "t">>>>, <<<<":">>>>) >>]

\* `search_patterns`: the patterns of the given type, or all of them when the
\* type is None or is no key of the dictionary.
SearchPatterns(type) ==
    IF type # <<>> /\ \E k \in DOMAIN SymbolPatternNames : SymbolPatternNames[k] = type[1]
    THEN SymbolPatterns[type[1]]
    ELSE SymbolPatterns["function"] \o SymbolPatterns["class"] \o SymbolPatterns["variable"]

\* Whether `word` stands in `text` at position i.
StartsAt(text, i, word) ==
    /\ i + Len(word) - 1 <= Len(text)
    /\ SubSeq(text, i, i + Len(word) - 1) = word

\* The position after the run of whitespace (\s*) that starts at i.
RECURSIVE SkipSpaces(_, _)
SkipSpaces(text, i) ==
    IF i <= Len(text) /\ IsSpace(text[i]) THEN SkipSpaces(text, i + 1) ELSE i

\* The first number of a set of numbers.
Least(S) == CHOOSE k \in S : \A j \in S : k <= j

\* The position after one of `closers` at q, 0 when none stands there.
CloserEnd(text, q, closers) ==
    IF \E k \in DOMAIN closers : StartsAt(text, q, closers[k])
    THEN q + Len(closers[Least({k \in DOMAIN closers : StartsAt(text, q, closers[k])})])
    ELSE 0

\* The position after a match of `symbol \s* closer` that starts at i, 0 when
\* there is none.
SymbolEnd(text, i, sym, closers) ==
    IF ~StartsAt(text, i, sym) THEN 0
    ELSE CloserEnd(text, SkipSpaces(text, i + Len(sym)), closers)

\* The position after a match of `keyword \s+ symbol \s* closer` at i, 0 when
\* there is none.
KeywordEnd(text, i, keyword, sym, closers) ==
    IF StartsAt(text, i, keyword) /\ i + Len(keyword) <= Len(text)
       /\ IsSpace(text[i + Len(keyword)])
    THEN SymbolEnd(text, SkipSpaces(text, i + Len(keyword)), sym, closers)
    ELSE 0

\* re.match of one pattern at position i: the position after the match, 0 when
\* the pattern does not match there. The alternatives of the keyword are tried
\* in their order.
MatchEnd(text, i, pattern, sym) ==
    IF pattern.keywords = <<>> THEN SymbolEnd(text, i, sym, pattern.closers)
    ELSE IF \E k \in DOMAIN pattern.keywords :
                KeywordEnd(text, i, pattern.keywords[k], sym, pattern.closers) > 0
         THEN KeywordEnd(text, i,
                  pattern.keywords[Least({k \in DOMAIN pattern.keywords :
                      KeywordEnd(text, i, pattern.keywords[k], sym, pattern.closers) > 0})],
                  sym, pattern.closers)
         ELSE 0

\* re.finditer(pattern, content): the matches from left to right, none
\* overlapping another.
RECURSIVE FindIter(_, _, _, _)
FindIter(text, i, pattern, sym) ==
    IF i > Len(text) THEN <<>>
    ELSE IF MatchEnd(text, i, pattern, sym) > 0
         THEN <<[start |-> i, end |-> MatchEnd(text, i, pattern, sym)]>>
              \o FindIter(text, MatchEnd(text, i, pattern, sym), pattern, sym)
         ELSE FindIter(text, i + 1, pattern, sym)

\* lines[start:end] for start = max(0, line_number - 2) and
\* end = min(len(lines), line_number + 3), joined by "\n".
SymbolContext(lines, line_number) ==
    Join(SubSeq(lines, Max(0, line_number - 2) + 1, Min(Len(lines), line_number + 3)),
         <<"\n">>)

\* The SearchResult of search_symbol for a row and the matches of the first
\* pattern that matched; the first match is on line `line_number`.
SymbolHit(row, matches, line_number) ==
    [path |-> row.path,
     content |-> SubSeq(row.content, 1, Min(500, Len(row.content))),
     score |-> Rat(Len(matches), 1),
     line_number |-> line_number,
     match_context |-> SymbolContext(SplitLines(row.content, <<>>), line_number),
     search_type |-> "symbol",
     highlights |-> [k \in 1..Min(3, Len(matches)) |->
                        SubSeq(row.content, matches[k].start, matches[k].end - 1)]]

\* content[:first_match.start()].count('\n') + 1
LineOf(content, matches) == LineCount(SubSeq(content, 1, matches[1].start - 1))

\* The result that search_symbol builds for one row: <<>> when no pattern
\* matches, else the result for the first pattern that does.
RECURSIVE SymbolResult(_, _, _, _)
SymbolResult(row, patterns, k, sym) ==
    IF k > Len(patterns) THEN <<>>
    ELSE IF FindIter(row.content, 1, patterns[k], sym) # <<>>
         THEN <<SymbolHit(row, FindIter(row.content, 1, patterns[k], sym),
                          LineOf(row.content, FindIter(row.content, 1, patterns[k], sym)))>>
         ELSE SymbolResult(row, patterns, k + 1, sym)

\* The loop of search_symbol over the rows: a result per row that matches,
\* until the list holds `lim` results.
RECURSIVE CollectSymbols(_, _, _, _, _, _)
CollectSymbols(rows, k, results, patterns, sym, lim) ==
    IF k > Len(rows) THEN results
    ELSE IF Len(results \o SymbolResult(rows[k], patterns, 1, sym)) >= lim
         THEN results \o SymbolResult(rows[k], patterns, 1, sym)
         ELSE CollectSymbols(rows, k + 1, results \o SymbolResult(rows[k], patterns, 1, sym),
                             patterns, sym, lim)

\* SearchEngine.search_symbol
Truncated(results, lim) == SubSeq(results, 1, Min(lim, Len(results)))

SearchSymbolResults(sym, type, lim) ==
    Returned(Truncated(
        SortedByScore(CollectSymbols(RowsById, 1, <<>>, SearchPatterns(type), sym, lim)),
        lim))

(***************************************************************************)
(* The search model: a store that one pass over a small tree has filled,    *)
(* and one search on it.                                                    *)
(***************************************************************************)
PathLib == << <<"lib">>, <<"c", ".py">> >>
SearchPaths == <<PathTop, PathNested, PathLib>>

SearchBodies ==
    << <<"a", " ", "(", "\n", "{", "a", "\n", "f", "n", " ", "a", "(">>,
       <<"A", "\n", "a", " ", "a", "\n", "(", "a", "\n", "a", "\n",
         "a", ":", "=", "\n", "a", " ", ":", "=">>,
       <<"\"", "{", "\"">> >>

SearchRows ==
    {RowOf(NewIndexedFile(SearchPaths[k], SearchBodies[k], DetectLanguage(SearchPaths[k]),
                          Len(SearchBodies[k]), 1), k) : k \in DOMAIN SearchPaths}

SearchStats ==
    [NewIndexStats EXCEPT
        !.total_files = Len(SearchPaths),
        !.total_lines = SumSeq([k \in DOMAIN SearchBodies |-> LineCount(SearchBodies[k])]),
        !.total_size = SumSeq([k \in DOMAIN SearchBodies |-> Len(SearchBodies[k])]),
        !.languages = ("python" :> 2) @@ ("javascript" :> 1),
        !.last_indexed = <<[sec |-> 1, us |-> 0]>>]

\* Sequences of distinct elements of S.
Rankings(S) ==
    UNION {{o \in [1..n -> S] : \A i, j \in 1..n : i # j => o[i] # o[j]} :
              n \in 0..Cardinality(S)}

\* What MATCH with ORDER BY bm25 can answer to an accepted query: distinct
\* rows of files, each with a negative score, in ascending order of score.
\* A query the engine rejects gets no answer.
EngineRankings(q) ==
    IF Fts5Match(PrepareFtsQuery(q)) = <<>>
    THEN {[k \in DOMAIN o |-> [row |-> o[k], score |-> k - Len(o) - 1]] :
             o \in Rankings(files)}
    ELSE {<<>>}

\* What a semantic backend can answer: results for distinct paths.
SemanticResult(path) ==
    [path |-> path, content |-> <<>>, score |-> Rat(1, 2), line_number |-> 0,
     match_context |-> <<>>, search_type |-> "semantic", highlights |-> <<>>]
SemanticRankings(back) ==
    LET P == {SearchPaths[k] : k \in DOMAIN SearchPaths}
    IN IF back = "ok" THEN {[k \in DOMAIN o |-> SemanticResult(o[k])] : o \in Rankings(P)}
       ELSE {<<>>}

SearchOff ==
    /\ query = <<>>
    /\ limit = 1
    /\ language = <<>>
    /\ path_filter = <<>>
    /\ search_pc = "off"
    /\ search_mode = "fulltext"
    /\ backend = "absent"
    /\ outcome = Returned(<<>>)
    /\ fulltext_results = <<>>
    /\ semantic_results = <<>>
    /\ scores = <<>>
    /\ symbol = <<>>
    /\ symbol_type = <<>>
    /\ storage_fault = <<>>
    /\ match_content = <<>>
    /\ applied = <<>>

SearchInit ==
    /\ tree = [p \in Paths |-> NoFile]
    /\ files = SearchRows
    /\ files_fts = {[rowid |-> r.id, path |-> r.path, content |-> r.content,
                     language |-> r.language] : r \in SearchRows}
    /\ next_id = Len(SearchPaths) + 1
    /\ index_stats = {[key |-> "stats", value |-> ToDict(SearchStats)]}
    /\ pc = "idle"
    /\ scan = <<>>
    /\ stats = NewIndexStats
    /\ languages = <<>>
    /\ indexed_count = 0
    /\ skipped_count = 0
    /\ returned = <<SearchStats>>
    /\ upserts = 0
    /\ dirty = FALSE
    /\ history = <<>>
    /\ ignore = <<>>
    /\ db_exists = TRUE
    /\ mtime = [p \in Paths |-> 1]
    /\ stats_writes = 1
    /\ cleared = FALSE
    /\ call_error = <<>>
    /\ swallowed = 0
    /\ latest = {[path |-> r.path, content |-> r.content] : r \in SearchRows}
    /\ TraceInit
    /\ query \in Strings(QueryChars, MaxQueryLen)
    /\ limit \in 1..MaxLimit
    /\ language \in {<<>>, <<"python">>}
    /\ path_filter \in {<<>>, <<<<"node_modules">>>>}
    /\ search_pc = "ready"
    /\ search_mode = "fulltext"
    /\ backend = "absent"
    /\ outcome = Returned(<<>>)
    /\ fulltext_results = <<>>
    /\ semantic_results = <<>>
    /\ scores = <<>>
    /\ symbol = <<>>
    /\ symbol_type = <<>>
    /\ storage_fault = <<>>
    /\ match_content = <<>>
    /\ applied = <<>>

\* SearchEngine.search on an engine in mode "fulltext".
SearchFulltext ==
    /\ search_pc = "ready"
    /\ \E ranking \in EngineRankings(query) :
          outcome' = FulltextSearch(query, limit, language, path_filter, ranking)
    /\ search_mode' = "fulltext"
    /\ search_pc' = "done"
    /\ UNCHANGED <<query, limit, language, path_filter, backend, fulltext_results,
                   semantic_results, scores, symbol, symbol_type, storage_fault,
                   match_content, applied>>
    /\ UNCHANGED indexerVars

\* The sqlite3.OperationalError messages, as their words, that the store can
\* raise under the full-text query whatever the query is: the database is
\* locked by a writer, or the FTS5 index was written in another file format.
StorageFailures ==
    {<<"database", "is", "locked">>, <<"invalid", "fts5", "file", "format">>}

\* SearchEngine.search in mode "fulltext" on a store that fails under
\* cursor.execute.
SearchFulltextStoreFails ==
    /\ search_pc = "ready"
    /\ \E message \in StorageFailures :
          /\ storage_fault' = <<message>>
          /\ outcome' = OnOperationalError(message, query, limit, language, path_filter)
    /\ search_mode' = "fulltext"
    /\ search_pc' = "done"
    /\ UNCHANGED <<query, limit, language, path_filter, backend, fulltext_results,
                   semantic_results, scores, symbol, symbol_type, match_content, applied>>
    /\ UNCHANGED indexerVars

\* SearchEngine.search on an engine in mode "semantic".
SearchSemantic ==
    /\ search_pc = "ready"
    /\ \E ranking \in EngineRankings(query), back \in {"absent", "throws", "ok"} :
       \E semantic \in SemanticRankings(back) :
          /\ outcome' = SemanticSearch(query, limit, language, path_filter, ranking,
                                       back, semantic)
          /\ backend' = back
    /\ search_mode' = "semantic"
    /\ search_pc' = "done"
    /\ UNCHANGED <<query, limit, language, path_filter, fulltext_results,
                   semantic_results, scores, symbol, symbol_type, storage_fault,
                   match_content, applied>>
    /\ UNCHANGED indexerVars

\* SearchEngine.search on an engine in mode "hybrid".
SearchHybrid ==
    /\ search_pc = "ready"
    /\ \E ranking \in EngineRankings(query), back \in {"absent", "throws", "ok"} :
       \E semantic \in SemanticRankings(back) :
          LET ft == FulltextSearch(query, limit * 2, language, path_filter, ranking)
              sem == SemanticSearch(query, limit * 2, language, path_filter, ranking,
                                    back, semantic)
          IN /\ outcome' = HybridSearch(query, limit, language, path_filter, ranking,
                                        back, semantic)
             /\ backend' = back
             /\ fulltext_results' = ft.results
             /\ semantic_results' = sem.results
             /\ scores' = IF ft.raised = <<>> /\ sem.raised = <<>>
                          THEN FusedScores(ft.results, sem.results) ELSE <<>>
    /\ search_mode' = "hybrid"
    /\ search_pc' = "done"
    /\ UNCHANGED <<query, limit, language, path_filter, symbol, symbol_type, storage_fault,
                   match_content, applied>>
    /\ UNCHANGED indexerVars

\* The symbols and symbol types that search_symbol is called with.
Symbols == {<<"a">>, <<"f", "n">>}
SymbolTypes == {<<>>, <<"function">>, <<"class">>, <<"variable">>, <<"method">>}

\* SearchEngine.search_symbol
SearchSymbol ==
    /\ search_pc = "ready"
    /\ \E sym \in Symbols, type \in SymbolTypes :
          /\ outcome' = SearchSymbolResults(sym, type, limit)
          /\ symbol' = sym
          /\ symbol_type' = type
    /\ search_pc' = "symbol_done"
    /\ UNCHANGED <<query, limit, language, path_filter, search_mode, backend,
                   fulltext_results, semantic_results, scores, storage_fault,
                   match_content, applied>>
    /\ UNCHANGED indexerVars

SearchNext == SearchFulltext \/ SearchSemantic \/ SearchHybrid \/ SearchSymbol

(***************************************************************************)
(* The Match Extractor and the sanitizer on their own: the inputs are drawn *)
(* and the function is applied once.                                        *)
(***************************************************************************)
\* The contents that _find_matches is given: five lines of which four hold
\* an "a" or "A", two of them with whitespace at an end; one line without;
\* and the empty content.
ExtractContents ==
    { <<" ", "a", "\n", "x", "\n", "A", "\t", "\n", "a", "\n", "x", "a">>,
      <<"x", " ">>,
      <<>> }

ExtractChars == {"a", "x", " ", "\n"}

\* The characters of the queries that the sanitizer is given.
SanitizerChars == {"a", " ", "\t", "\n", "\"", "(", "-"}

\* A SearchEngine on a store, before one of its functions is applied to a
\* query and a content drawn from `queries` and `contents`.
PureInit(queries, contents) ==
    /\ tree = [p \in Paths |-> File(Body1)]
    /\ IndexerInit
    /\ query \in queries
    /\ match_content \in contents
    /\ applied = <<>>
    /\ limit = 1
    /\ language = <<>>
    /\ path_filter = <<>>
    /\ search_pc = "ready"
    /\ search_mode = "fulltext"
    /\ backend = "absent"
    /\ outcome = Returned(<<>>)
    /\ fulltext_results = <<>>
    /\ semantic_results = <<>>
    /\ scores = <<>>
    /\ symbol = <<>>
    /\ symbol_type = <<>>
    /\ storage_fault = <<>>

\* SearchEngine._find_matches(content, query)
ApplyFindMatches ==
    /\ search_pc = "ready"
    /\ applied' = <<FindMatches(match_content, query)>>
    /\ search_pc' = "extracted"
    /\ UNCHANGED <<query, limit, language, path_filter, search_mode, backend, outcome,
                   fulltext_results, semantic_results, scores, symbol, symbol_type,
                   storage_fault, match_content>>
    /\ UNCHANGED indexerVars

\* SearchEngine._prepare_fts_query(query)
ApplyPrepareFtsQuery ==
    /\ search_pc = "ready"
    /\ applied' = <<PrepareFtsQuery(query)>>
    /\ search_pc' = "sanitized"
    /\ UNCHANGED <<query, limit, language, path_filter, search_mode, backend, outcome,
                   fulltext_results, semantic_results, scores, symbol, symbol_type,
                   storage_fault, match_content>>
    /\ UNCHANGED indexerVars

(***************************************************************************)
(* The life of an index directory: it starts without a store, a CodeIndexer *)
(* creates the store and runs passes, and a SearchEngine is opened on it.    *)
(***************************************************************************)
IndexMissing == "FileNotFoundError: Index not found"

EmptyTree == [p \in Paths |-> NoFile]
LifecycleTrees == {EmptyTree, [EmptyTree EXCEPT ![PathTop] = File(Body2)]}
LifecycleQueries == {<<>>, <<"y">>, <<"a">>, <<"{", "a">>}

\* A variant of DbPathExists that never finds the database file.
DbPathExistsNever == FALSE

\* self.db_path.exists()
DbPathExists == db_exists

LifecycleInit ==
    /\ tree \in LifecycleTrees
    /\ files = {}
    /\ files_fts = {}
    /\ next_id = 1
    /\ index_stats = {}
    /\ pc = "idle"
    /\ scan = <<>>
    /\ stats = NewIndexStats
    /\ languages = <<>>
    /\ indexed_count = 0
    /\ skipped_count = 0
    /\ returned = <<>>
    /\ upserts = 0
    /\ dirty = FALSE
    /\ history = <<>>
    /\ ignore = <<>>
    /\ db_exists = FALSE
    /\ mtime = [p \in Paths |-> 1]
    /\ stats_writes = 0
    /\ cleared = FALSE
    /\ call_error = <<>>
    /\ swallowed = 0
    /\ latest = {}
    /\ TraceInit
    /\ SearchOff

\* CodeIndexer.__init__: the index directory and code.db are created if they
\* are not there, with the three tables (CREATE ... IF NOT EXISTS).
NewCodeIndexer ==
    /\ pc = "idle"
    /\ search_pc = "off"
    /\ ~db_exists
    /\ db_exists' = TRUE
    /\ UNCHANGED <<tree, storeVars, passVars, ghostVars, ignore, mtime, callVars, traceVars>>
    /\ UNCHANGED searchVars

\* SearchEngine.__init__ while no pass runs: FileNotFoundError when code.db
\* is not there; otherwise the engine is ready for one call.
NewSearchEngine ==
    /\ pc = "idle"
    /\ search_pc = "off"
    /\ IF ~DbPathExists
       THEN /\ outcome' = Raised(IndexMissing)
            /\ UNCHANGED <<query, limit, language, path_filter, search_pc>>
       ELSE /\ outcome' = Returned(<<>>)
            /\ query' \in LifecycleQueries
            /\ limit' \in 1..MaxLimit
            /\ language' \in {<<>>, <<"python">>}
            /\ path_filter' = <<>>
            /\ search_pc' = "ready"
    /\ UNCHANGED <<search_mode, backend, fulltext_results, semantic_results, scores,
                   symbol, symbol_type, storage_fault,
                   match_content, applied>>
    /\ UNCHANGED indexerVars

\* The calls of the indexer while no SearchEngine is open.
QuietScan == search_pc = "off" /\ \E root \in Roots : IndexDirectoryScan(root)
QuietStep == search_pc = "off" /\ IndexDirectoryStep
QuietFinish == search_pc = "off" /\ IndexDirectoryFinish

LifecycleNext ==
    \/ NewCodeIndexer
    \/ QuietScan
    \/ QuietStep
    \/ QuietFinish
    \/ NewSearchEngine
    \/ SearchFulltext
    \/ SearchSymbol

(***************************************************************************)
(* Specifications.                                                          *)
(***************************************************************************)
vars == <<indexerVars, searchVars>>

Init == IndexerInit /\ SearchOff

Next == IndexerNext

\* The indexer and the store.
Spec == Init /\ [][Next]_vars

\* One search on an indexed store.
SearchSpec == SearchInit /\ [][SearchNext]_vars

\* Passes of the indexer on a store that can fail.
FaultNext ==
    \/ \E root \in Roots : IndexDirectoryScan(root)
    \/ IndexDirectoryStep
    \/ IndexDirectoryStepLookupFails
    \/ IndexDirectoryStepUpsertFails
    \/ IndexDirectoryFinish

FaultSpec == Init /\ [][FaultNext]_vars

\* Passes of an indexer that `index` constructed with or without --ignore.
IgnoreInit == IndexerInitWith(IgnoreOptions) /\ SearchOff

IgnoreNext ==
    \/ \E root \in Roots : IndexDirectoryScan(root)
    \/ IndexDirectoryStep
    \/ IndexDirectoryFinish

IgnoreSpec == IgnoreInit /\ [][IgnoreNext]_vars

\* Passes of the indexer over a tree in which a file changes in content or in
\* modification time only.
TouchNext ==
    \/ \E p \in TouchPaths : \E state \in FileStates(p) : WriteFile(p, state)
    \/ \E p \in TouchPaths : Touch(p)
    \/ IndexDirectoryScan(RootDir)
    \/ IndexDirectoryStep
    \/ IndexDirectoryFinish

TouchSpec == Init /\ [][TouchNext]_vars

\* Passes of the indexer that the caller or a failing upsert can abort.
AbortNext ==
    \/ IndexDirectoryScan(RootDir)
    \/ IndexDirectoryStep
    \/ IndexDirectoryStepUpsertFails
    \/ IndexDirectoryAbort
    \/ IndexDirectoryFinish

AbortSpec == Init /\ [][AbortNext]_vars

\* Passes of the indexer with a reader that reads at any moment.
ReaderNext ==
    \/ \E p \in TouchPaths : \E state \in FileStates(p) : WriteFile(p, state)
    \/ IndexDirectoryScan(RootDir)
    \/ IndexDirectoryStep
    \/ IndexDirectoryFinish
    \/ ReadStore

ReaderSpec == Init /\ [][ReaderNext]_vars

\* One full-text search on a store that can fail.
StoreFaultNext == SearchFulltext \/ SearchFulltextStoreFails

StoreFaultSpec == SearchInit /\ [][StoreFaultNext]_vars

\* The Match Extractor applied to a content and a query.
ExtractSpec ==
    PureInit(Strings(ExtractChars, MaxQueryLen), ExtractContents)
        /\ [][ApplyFindMatches]_vars

\* The sanitizer applied to a query.
SanitizerSpec ==
    PureInit(Strings(SanitizerChars, MaxQueryLen), {<<>>})
        /\ [][ApplyPrepareFtsQuery]_vars

\* An index directory from before its store exists to a search on it.
LifecycleSpec == LifecycleInit /\ [][LifecycleNext]_vars

(***************************************************************************)
(* Properties of the indexer and the store, checked under Spec.             *)
(***************************************************************************)
Triple(r) == <<r.path, r.content, r.language>>

\* Some stored path has been upserted more than once: its first record was
\* replaced by the record the table holds now.
SomeRecordReplaced ==
    \E r \in files : \E e \in files_fts : e.path = r.path /\ e.rowid < r.id

\* C1 (mirror parity): after any sequence of upserts, deletes and clears, the
\* set of (path, content, language) triples held by the full-text mirror
\* equals the set of triples held by the files table.
C1_MirrorParity == {Triple(e) : e \in files_fts} = {Triple(r) : r \in files}

\* C2 (incremental idempotence, writes): when two index_directory calls follow
\* each other with no change to the tree and no other store operation in
\* between, the second pass performs zero upserts.
C2_SecondPassZeroUpserts == Len(history) = 2 => history[2].upserts = 0

\* The second of two consecutive passes over an unchanged tree has completed,
\* and the first one had saved both eligible files.
C2_Witness == Len(history) = 2 /\ history[1].upserts = 2

\* C3 (incremental idempotence, statistics): two consecutive index_directory
\* calls on an unchanged tree return and persist statistics with the same
\* total_files, total_lines, total_size and per-language map.
C3_StatsUnchanged ==
    Len(history) = 2 =>
        /\ history[2].total_files = history[1].total_files
        /\ history[2].total_lines = history[1].total_lines
        /\ history[2].total_size = history[1].total_size
        /\ history[2].languages = history[1].languages

\* C4 (fingerprint soundness): every record of the files table carries the
\* fingerprint of its own content, whatever passes produced it.
C4_FingerprintSound == \A r \in files : r.content_hash = Sha256Hex16(r.content)

\* A record written by a pass over a modified file is in the table.
C4_Witness ==
    \E r \in files : \E e \in files_fts :
        e.path = r.path /\ e.rowid < r.id /\ e.content # r.content

\* C6 (ignore totality): no stored record has a path component, at any depth,
\* that equals a default ignore pattern.
C6_IgnoreTotality ==
    \A r \in files : \A i \in DOMAIN DEFAULT_IGNORE_PATTERNS :
        \A k \in DOMAIN r.path : ~StrEq(<<r.path[k]>>, DEFAULT_IGNORE_PATTERNS[i])

\* C7 (language closure): every stored record has a language tag of the closed
\* table, and never the tag "unknown".
C7_LanguageClosed ==
    \A r \in files : r.language \in LanguageTags /\ r.language # "unknown"

\* A file with an upper-case suffix is stored under its language while a file
\* with an unrecognized suffix sits in the tree.
C7_Witness ==
    /\ \E r \in files : r.path = PathTop /\ r.language = "python"
    /\ tree[PathUnknown].kind = "file"
    /\ pc = "idle" /\ returned # <<>>

\* C9 (round trip of the statistics): what get_stats reads is equal, in all six
\* fields, to the statistics the last pass saved and returned, and the table
\* holds one blob however many passes have saved one.
C9_StatsRoundTrip ==
    /\ Cardinality(index_stats) <= 1
    /\ returned # <<>> => GetStats = returned /\ Cardinality(index_stats) = 1

\* A later pass has overwritten the blob of an earlier one, and the blob read
\* back has a non-empty language map and a whole-second timestamp.
C9_Witness ==
    /\ SomeRecordReplaced
    /\ pc = "idle"
    /\ returned # <<>>
    /\ returned[1].total_files = 1
    /\ returned[1].last_indexed[1].us = 0
    /\ GetStats = returned

\* C11 (statistics written once, at the end): a pass writes the statistics
\* blob exactly once, and only when every scanned file has been processed;
\* while the loop runs no statistics of this pass have been written.
C11_StatsWrittenOnceAtEnd ==
    /\ stats_writes <= 1
    /\ pc = "indexing" => stats_writes = 0
    /\ stats_writes = 1 => scan = <<>>
    /\ (pc = "idle" /\ returned # <<>>) => stats_writes = 1

\* A pass that saved two files has ended and has written its statistics.
C11_Witness ==
    /\ pc = "idle"
    /\ stats_writes = 1
    /\ returned # <<>>
    /\ returned[1].total_files = 2

\* C12 (failure isolation): a file that cannot be read is skipped and the
\* pass goes on; a storage error, in the fingerprint lookup or in the upsert,
\* ends the pass with the error and is never counted as a skipped file.
C12_FailureIsolation ==
    /\ [](swallowed = 0)
    /\ [][/\ (pc = "indexing" /\ scan # <<>> /\ tree[Head(scan)].kind = "unreadable"
               /\ scan' = Tail(scan))
              => (pc' = "indexing" /\ skipped_count' = skipped_count + 1
                  /\ UNCHANGED storeVars)
          /\ (pc = "indexing" /\ call_error' = <<StorageError>>)
              => (pc' = "idle" /\ UNCHANGED storeVars)]_vars

\* C16 (clear): after clear_index and until the next pass begins, the files
\* table is empty, the full-text mirror is empty, get_indexed_files returns no
\* path and get_stats returns None.
C16_ClearEmptiesAll ==
    cleared =>
        /\ files = {}
        /\ files_fts = {}
        /\ GetIndexedFiles(<<>>) = <<>>
        /\ GetStats = <<>>

\* C17 (not a directory): index_directory on a path that is no directory
\* raises the not-a-directory error, scans nothing, and leaves the files
\* table, the mirror and the statistics blob as they were.
C17_NotADirectoryLeavesStore ==
    [][\A root \in Roots \ Directories :
          IndexDirectoryScan(root) =>
              /\ call_error' = <<NotADirectory>>
              /\ pc' = "idle"
              /\ scan' = scan
              /\ UNCHANGED storeVars]_vars

\* The call was refused on a store that holds records and statistics.
C17_Witness ==
    /\ call_error = <<NotADirectory>>
    /\ files # {}
    /\ index_stats # {}

\* C18 (ignore list, checked under IgnoreSpec): when the caller supplies
\* patterns with --ignore, every file that the default patterns alone would
\* ignore is still ignored and never stored.
C18_DefaultsStillIgnored ==
    ignore # <<>> => \A r \in files : ~ShouldIgnore(r.path, DEFAULT_IGNORE_PATTERNS)

\* C20 (upsert by path): the files table holds at most one record per path,
\* the record of a path carries the content of its last upsert not followed
\* by a delete, and an upsert or a delete of one path leaves the records of
\* every other path as they were.
C20_UpsertByPath ==
    /\ [](/\ \A r1, r2 \in files : r1.path = r2.path => r1 = r2
          /\ {[path |-> r.path, content |-> r.content] : r \in files} = latest)
    /\ [][/\ \A p \in Paths :
                RemoveFile(p) => {r \in files : r.path # p} = {r \in files' : r.path # p}
          /\ IndexDirectoryStep =>
                {r \in files : r.path # Head(scan)} = {r \in files' : r.path # Head(scan)}]_vars

\* A path was upserted, then another one, then the first one again: the
\* record of the second is the one its upsert wrote.
C20_Witness ==
    \E r1, r2 \in files :
        /\ r1.path # r2.path
        /\ r2.id < r1.id
        /\ \E e \in files_fts : e.path = r1.path /\ e.rowid < r2.id

(***************************************************************************)
(* Properties of the search engine, checked under SearchSpec.               *)
(***************************************************************************)
\* The 1-based position of `path` in a list of results, 0 when it is not there.
Position(results, path) ==
    IF \E i \in DOMAIN results : results[i].path = path
    THEN CHOOSE i \in DOMAIN results : results[i].path = path
    ELSE 0

FusedScore(path) == scores[CHOOSE i \in DOMAIN scores : scores[i].path = path].score

HybridFused ==
    /\ search_pc = "done"
    /\ search_mode = "hybrid"
    /\ backend = "ok"
    /\ outcome.raised = <<>>

\* A outranks B in the list of the Full-Text Planner and in the semantic list.
OutranksInBoth(a, b) ==
    /\ Position(fulltext_results, a) > 0
    /\ Position(fulltext_results, a) < Position(fulltext_results, b)
    /\ Position(semantic_results, a) > 0
    /\ Position(semantic_results, a) < Position(semantic_results, b)

\* The stored row that a result was built from.
RowOfResult(r) == CHOOSE row \in files : row.path = r.path

\* The 1-indexed number of the first line of `content` that contains `q`
\* whatever the case of its letters, 0 when no line does.
FirstMatchingLine(content, q) ==
    LET lines == SplitLines(content, <<>>)
        hits == {i \in DOMAIN lines : Contains(LowerStr(lines[i]), LowerStr(q))}
    IN IF hits = {} THEN 0 ELSE CHOOSE i \in hits : \A j \in hits : i <= j

\* The search went to the Fallback Planner.
FallbackTaken ==
    /\ search_pc = "done"
    /\ search_mode = "fulltext"
    /\ MentionsFts5(Fts5Match(PrepareFtsQuery(query)))

\* C13 (line of the first match): the line_number of every result of the
\* full-text search is the number of the first line of the file's content that
\* contains the query case-insensitively, also when several lines match, and
\* 0 exactly when no line does.
C13_LineNumberIsFirstMatch ==
    (search_pc = "done" /\ search_mode = "fulltext" /\ outcome.raised = <<>>) =>
        \A k \in DOMAIN outcome.results :
            outcome.results[k].line_number =
                FirstMatchingLine(RowOfResult(outcome.results[k]).content, query)

\* C14 (fallback results): every result of the Fallback Planner is a stored
\* file whose body contains the original query as a literal substring and
\* which passes the language and path filters, with score 1.0 and
\* search_type "fulltext", also for a query that holds "%" or "_".
C14_FallbackLiteralSubstring ==
    FallbackTaken =>
        \A k \in DOMAIN outcome.results :
            LET r == outcome.results[k]
            IN /\ \E row \in files :
                      /\ row.path = r.path
                      /\ Contains(row.content, query)
                      /\ PassesFilters(row, language, path_filter)
               /\ r.score = Rat(1, 1)
               /\ r.search_type = "fulltext"

\* The results of search_symbol for all the stored files that match.
AllSymbolMatches ==
    CollectSymbols(RowsById, 1, <<>>, SearchPatterns(symbol_type), symbol, Cardinality(files) + 1)

\* C15 (symbol search): search_symbol returns the results for all the stored
\* files that match, sorted by descending score and then cut to `limit`; no
\* matching file that is left out has more matches than a returned one.
C15_SymbolTopByScore ==
    search_pc = "symbol_done" =>
        /\ outcome.results =
               SubSeq(SortedByScore(AllSymbolMatches), 1, Min(limit, Len(AllSymbolMatches)))
        /\ \A i \in DOMAIN AllSymbolMatches : \A k \in DOMAIN outcome.results :
               Position(outcome.results, AllSymbolMatches[i].path) = 0 =>
                   ~RatGreater(AllSymbolMatches[i].score, outcome.results[k].score)

\* C19 (index missing, checked under LifecycleSpec): a SearchEngine opened on
\* an index directory without a store fails with the index-missing error;
\* once a pass has completed, even over an empty tree (statistics persisted
\* with total_files 0, total_lines 0 and no language), the engine opens, and
\* a search that returns on the empty store returns the empty list.
C19_IndexMissingOnlyWithoutStore ==
    /\ [](/\ (pc = "idle" /\ returned # <<>>) => db_exists
          /\ (pc = "idle" /\ returned # <<>> /\ tree = EmptyTree) =>
                /\ GetStats # <<>>
                /\ GetStats[1].total_files = 0
                /\ GetStats[1].total_lines = 0
                /\ GetStats[1].languages = <<>>
          /\ search_pc \in {"ready", "done", "symbol_done"} =>
                outcome.raised # <<IndexMissing>>
          /\ (search_pc \in {"done", "symbol_done"} /\ files = {}
                /\ outcome.raised = <<>>) => outcome.results = <<>>)
    /\ [][NewSearchEngine =>
            /\ ~db_exists => (outcome' = Raised(IndexMissing) /\ search_pc' = "off")
            /\ (db_exists /\ returned # <<>>) =>
                  (search_pc' = "ready" /\ outcome'.raised = <<>>)]_vars

\* A search on the store that a pass over the empty tree has left returned
\* the empty list.
C19_Witness ==
    /\ tree = EmptyTree
    /\ returned # <<>>
    /\ GetStats # <<>>
    /\ GetStats[1].total_files = 0
    /\ search_pc = "done"
    /\ query = <<"a">>
    /\ outcome = Returned(<<>>)

\* C5 (sanitizer safety): for every query, the full-text search either has its
\* sanitized query accepted or returns the fallback's results; no error of the
\* engine about the query reaches the caller of search.
C5_NoQueryErrorReachesCaller ==
    (search_pc = "done" /\ search_mode = "fulltext") => outcome.raised = <<>>

\* C8 (RRF monotonicity): in a hybrid search where both planners returned a
\* list, a path that outranks another in both lists has the strictly greater
\* fused score, comes before it in the result, and is in the truncated result
\* whenever the other is.
C8_RrfMonotone ==
    HybridFused =>
        \A a, b \in {SearchPaths[k] : k \in DOMAIN SearchPaths} :
            OutranksInBoth(a, b) =>
                /\ RatGreater(FusedScore(a), FusedScore(b))
                /\ Position(outcome.results, b) > 0 =>
                      /\ Position(outcome.results, a) > 0
                      /\ Position(outcome.results, a) < Position(outcome.results, b)

\* Two paths are ranked the same way by both planners, in different places of
\* the two lists, and the truncation to `limit` keeps only the better one.
C8_Witness ==
    /\ HybridFused
    /\ \E a, b \in {SearchPaths[k] : k \in DOMAIN SearchPaths} :
          /\ OutranksInBoth(a, b)
          /\ Position(fulltext_results, a) # Position(semantic_results, a)
          /\ Position(outcome.results, a) > 0
          /\ Position(outcome.results, b) = 0

\* C10 (hybrid degradation): when the semantic backend is absent or throws,
\* hybrid search returns the first `limit` results of the Full-Text Planner,
\* in full-text order and unchanged in score and search_type.
C10_DegradesToFulltext ==
    (search_pc = "done" /\ search_mode = "hybrid" /\ backend \in {"absent", "throws"}
        /\ outcome.raised = <<>>) =>
        outcome.results = SubSeq(fulltext_results, 1, Min(limit, Len(fulltext_results)))

(***************************************************************************)
(* Properties of the passes over a changing tree.                           *)
(***************************************************************************)
\* The records that the store holds for the file the loop is at.
StoredAtHead == {r \in files : r.path = Head(scan)}

\* C21 (fingerprint decides, checked under TouchSpec): an iteration on a
\* readable file upserts it if and only if no fingerprint is stored for its
\* path or the stored one differs from the fingerprint of its content; a file
\* whose stored content is its content is never upserted, whatever its
\* modification time, and a file whose content differs from the stored
\* content is always upserted, also when the modification time is the stored
\* one.
C21_FingerprintDecidesUpsert ==
    [][(IndexDirectoryStep /\ tree[Head(scan)].kind = "file") =>
          /\ (upserts' = upserts + 1) <=>
                 (\/ GetFileHash(Head(scan)) = <<>>
                  \/ GetFileHash(Head(scan)) # <<Sha256Hex16(tree[Head(scan)].content)>>)
          /\ (\E r \in StoredAtHead : r.content = tree[Head(scan)].content) =>
                 (files' = files /\ files_fts' = files_fts /\ upserts' = upserts)
          /\ (\E r \in StoredAtHead : r.content # tree[Head(scan)].content) =>
                 /\ upserts' = upserts + 1
                 /\ \E n \in files' \ files :
                        n.path = Head(scan) /\ n.content = tree[Head(scan)].content]_vars

\* A pass over a tree left alone since it began has upserted nothing: it has
\* skipped a file whose modification time is not the stored one, and whose
\* record an earlier pass had replaced because the content had changed.
C21_Witness ==
    /\ pc = "indexing"
    /\ scan = <<>>
    /\ ~dirty
    /\ upserts = 0
    /\ \E r \in files : \E e \in files_fts :
          /\ r.path \in ScanFiles
          /\ tree[r.path] = File(r.content)
          /\ r.last_modified # mtime[r.path]
          /\ e.path = r.path
          /\ e.rowid < r.id
          /\ e.content # r.content

\* C22 (aborted pass, checked under AbortSpec): a pass that the caller or a
\* failing upsert aborts writes no statistics and leaves the store as its
\* upserts made it; when the next pass completes on the unchanged tree, the
\* store holds for every eligible readable file a record with the file's
\* content, and that pass has upserted no file whose iteration the aborted
\* pass had completed.
C22_AbortedPassReconciled ==
    /\ [][(IndexDirectoryAbort \/ IndexDirectoryStepUpsertFails) =>
             /\ index_stats' = index_stats
             /\ stats_writes' = 0
             /\ files' = files
             /\ files_fts' = files_fts
             /\ \A x \in latest : \E r \in files' :
                    r.path = x.path /\ r.content = x.content]_vars
    /\ [][(IndexDirectoryFinish /\ aborted # <<>> /\ ~dirty) =>
             /\ pass_upserted \cap aborted[1] = {}
             /\ \A p \in ScanFiles : tree[p].kind = "file" =>
                    \E r \in files' : r.path = p /\ r.content = tree[p].content]_vars

\* The pass after an aborted one is at its end: it has upserted a file and
\* skipped a file that the aborted pass, the first on this store, had
\* upserted.
C22_Witness ==
    /\ pc = "indexing"
    /\ scan = <<>>
    /\ ~dirty
    /\ aborted # <<>>
    /\ index_stats = {}
    /\ pass_upserted # {}
    /\ \E p \in aborted[1] :
          /\ p \notin pass_upserted
          /\ \E r \in files : r.path = p /\ tree[p] = File(r.content)

\* The entry of the mirror for a row of files.
MirrorOf(r) == [rowid |-> r.id, path |-> r.path, content |-> r.content,
                language |-> r.language]

\* C23 (prefix-consistent reads, checked under ReaderSpec): what a reader sees
\* during a pass is the store from before the pass plus the upserts of the
\* iterations completed so far, a prefix of the scan order: every record it
\* sees is one from before the pass or the new record of a file of that
\* prefix, seen together with its mirror entry; every upsert of the prefix is
\* seen; and the statistics are those from before the pass. After the pass
\* the reader sees the statistics that the pass returned.
C23_PrefixConsistentView ==
    /\ [][(ReadStore /\ pc = "indexing") =>
             /\ view'[1].index_stats = before.index_stats
             /\ \A r \in view'[1].files :
                    \/ r \in before.files
                    \/ /\ r.path \in pass_upserted
                       /\ r.id >= before.next_id
                       /\ MirrorOf(r) \in view'[1].files_fts
             /\ \A r \in before.files :
                    r \in view'[1].files <=> r.path \notin pass_upserted
             /\ \A p \in pass_upserted : \E r \in view'[1].files : r.path = p
             /\ pass_upserted \subseteq Range(processed)
             /\ view'[1].files_fts =
                    before.files_fts \cup
                        {MirrorOf(r) : r \in view'[1].files \ before.files}]_vars
    /\ [][(ReadStore /\ pc = "idle" /\ returned # <<>> /\ GetStats # <<>>) =>
             GetStats = returned]_vars

\* A reader has read in the middle of a pass that replaces records: it saw
\* the new record of one file and the old record of a file not yet reached.
C23_Witness ==
    /\ pc = "indexing"
    /\ scan # <<>>
    /\ processed # <<>>
    /\ view # <<>>
    /\ view[1] = Snapshot
    /\ before.files # {}
    /\ \E r \in view[1].files : r \notin before.files
    /\ \E r \in view[1].files : r \in before.files /\ r.path = Head(scan)

(***************************************************************************)
(* Properties of the planners on a store that can fail.                     *)
(***************************************************************************)
\* C24 (only syntax errors fall back, checked under StoreFaultSpec): a
\* storage error that the full-text query meets and that is no rejection of
\* the query reaches the caller of search; it never yields the fallback's
\* results.
C24_OnlySyntaxErrorsFallBack ==
    (search_pc = "done" /\ search_mode = "fulltext" /\ storage_fault # <<>>) =>
        outcome = Raised(storage_fault[1])

(***************************************************************************)
(* Properties of the Match Extractor and of the sanitizer.                  *)
(***************************************************************************)
\* The lines of a content that contain `q` whatever the case of the letters,
\* in line order.
MatchingLines(text, q) ==
    SelectSeq(SplitLines(text, <<>>), LAMBDA line : Contains(LowerStr(line), LowerStr(q)))

\* C25 (highlights, checked under ExtractSpec): the highlights that the Match
\* Extractor returns are the trimmed texts of the first min(3, m) of the m
\* lines that contain the query case-insensitively, in line order; when no
\* line matches, it returns line 0, the empty context and no highlight.
C25_HighlightsFirstThree ==
    search_pc = "extracted" =>
        /\ Len(applied[1].highlights) = Min(3, Len(MatchingLines(match_content, query)))
        /\ \A k \in DOMAIN applied[1].highlights :
               applied[1].highlights[k] = Strip(MatchingLines(match_content, query)[k])
        /\ MatchingLines(match_content, query) = <<>> =>
               /\ applied[1].line_number = 0
               /\ applied[1].context = <<>>
               /\ applied[1].highlights = <<>>

\* The Match Extractor met four matching lines and returned three highlights,
\* of which the first and the second were trimmed.
C25_Witness ==
    /\ search_pc = "extracted"
    /\ query = <<"a">>
    /\ Len(MatchingLines(match_content, query)) = 4
    /\ applied[1].highlights = << <<"a">>, <<"A">>, <<"a">> >>

(***************************************************************************)
(* Further properties of the searches, checked under SearchSpec.            *)
(***************************************************************************)
\* C26 (symbol context): every result of search_symbol has as line_number
\* the 1-indexed line on which its first match starts, and as match_context
\* that line with the two lines before it and the two lines after it, as far
\* as the file has them.
C26_SymbolContextTwoAround ==
    search_pc = "symbol_done" =>
        \A k \in DOMAIN outcome.results :
            LET r == outcome.results[k]
                text == RowOfResult(r).content
                lines == SplitLines(text, <<>>)
            IN /\ \E at \in DOMAIN text :
                      /\ StartsAt(text, at, r.highlights[1])
                      /\ LineCount(SubSeq(text, 1, at - 1)) = r.line_number
               /\ r.match_context =
                      Join(SubSeq(lines, Max(1, r.line_number - 2),
                                  Min(Len(lines), r.line_number + 2)), <<"\n">>)

\* The hybrid search had a list from both planners (the semantic planner
\* answers with the full-text list when its backend is absent).
HybridOfTwoLists ==
    /\ search_pc = "done"
    /\ search_mode = "hybrid"
    /\ backend \in {"ok", "absent"}
    /\ outcome.raised = <<>>

\* 1/(60 + r + 1) for the 0-based rank r of `path` in `results`, 0 when the
\* list does not hold the path.
RankShare(results, path) ==
    IF Position(results, path) > 0 THEN Rat(1, 60 + Position(results, path)) ELSE Rat(0, 1)

RrfSum(path) ==
    RatAdd(RankShare(fulltext_results, path), RankShare(semantic_results, path))

\* The place of a path in the insertion order of the fused map: the paths of
\* the full-text list in its order, then the other paths of the semantic list.
InsertionPlace(path) ==
    IF Position(fulltext_results, path) > 0 THEN Position(fulltext_results, path)
    ELSE Len(fulltext_results) + Position(semantic_results, path)

\* `a` comes before `b` in the order of the hybrid result.
FusedBefore(a, b) ==
    \/ RatGreater(RrfSum(a), RrfSum(b))
    \/ /\ ~RatGreater(RrfSum(b), RrfSum(a))
       /\ InsertionPlace(a) < InsertionPlace(b)

FusedPaths ==
    {fulltext_results[i].path : i \in DOMAIN fulltext_results}
        \cup {semantic_results[i].path : i \in DOMAIN semantic_results}

\* C27 (hybrid result): when both planners returned a list, the hybrid result
\* holds each path at most once, has min(limit, number of fused paths)
\* entries, is in the order of descending fused score with ties in the
\* insertion order of the fused map, holds the first paths of that order,
\* and gives every entry its fused score and search_type "hybrid".
C27_HybridResultOrder ==
    HybridOfTwoLists =>
        /\ \A i, j \in DOMAIN outcome.results :
               i # j => outcome.results[i].path # outcome.results[j].path
        /\ Len(outcome.results) = Min(limit, Cardinality(FusedPaths))
        /\ \A i \in DOMAIN outcome.results :
               /\ outcome.results[i].path \in FusedPaths
               /\ outcome.results[i].search_type = "hybrid"
               /\ ~RatGreater(outcome.results[i].score, RrfSum(outcome.results[i].path))
               /\ ~RatGreater(RrfSum(outcome.results[i].path), outcome.results[i].score)
        /\ \A i, j \in DOMAIN outcome.results :
               i < j => FusedBefore(outcome.results[i].path, outcome.results[j].path)
        /\ \A p \in FusedPaths :
               (\A i \in DOMAIN outcome.results : outcome.results[i].path # p) =>
                   \A i \in DOMAIN outcome.results : FusedBefore(outcome.results[i].path, p)

\* A hybrid result of two entries with the same fused score: a path that
\* only the full-text list holds comes before one that only the semantic
\* list holds.
C27_Witness ==
    /\ HybridOfTwoLists
    /\ backend = "ok"
    /\ Len(outcome.results) = 2
    /\ outcome.results[1].score = outcome.results[2].score
    /\ Position(fulltext_results, outcome.results[1].path) > 0
    /\ Position(fulltext_results, outcome.results[2].path) = 0
    /\ Position(semantic_results, outcome.results[1].path) = 0

(***************************************************************************)
(* Properties of the sanitizer, checked under SanitizerSpec.                *)
(***************************************************************************)
\* The query doubled at its double quotes and wrapped in double quotes.
PhraseOf(q) == <<"\"">> \o ReplaceChar(q, "\"", <<"\"", "\"">>) \o <<"\"">>

\* C28 (sanitizer branches): a query that holds whitespace (a space, a tab or
\* a newline) and does not start with a double quote is returned as a phrase
\* query, wrapped in double quotes with its double quotes doubled; every
\* other query is returned without any special character and without
\* whitespace at its ends or two whitespace characters in a row.
C28_SanitizerBranches ==
    search_pc = "sanitized" =>
        IF (\E i \in DOMAIN query : IsSpace(query[i])) /\ ~(query # <<>> /\ query[1] = "\"")
        THEN applied[1] = PhraseOf(query)
        ELSE /\ \A i \in DOMAIN applied[1] :
                    \A k \in DOMAIN special_chars : applied[1][i] # special_chars[k]
             /\ applied[1] # <<>> =>
                    ~IsSpace(applied[1][1]) /\ ~IsSpace(applied[1][Len(applied[1])])
             /\ \A i \in 1..(Len(applied[1]) - 1) :
                    ~(IsSpace(applied[1][i]) /\ IsSpace(applied[1][i + 1]))

(***************************************************************************)
(* Properties of the store after a completed pass, checked under Spec.      *)
(***************************************************************************)
\* The number of records of the file table with the language tag `lang`.
StoredWith(rows, lang) == Cardinality({r \in rows : r.language = lang})

\* The per-language count of a statistics value, 0 for a tag it does not hold.
CountOf(s, lang) == IF lang \in DOMAIN s.languages THEN s.languages[lang] ELSE 0

\* C29 (statistics describe the store): when a pass completes, the persisted
\* statistics have as total_files the number of records of the file table
\* and, for every language tag, as count the number of stored records with
\* that tag, also when the pass skipped unchanged files.
C29_StatsDescribeStore ==
    [][IndexDirectoryFinish =>
          /\ GetStats' # <<>>
          /\ GetStats'[1].total_files = Cardinality(files')
          /\ \A lang \in LanguageTags \cup {"unknown"} :
                 CountOf(GetStats'[1], lang) = StoredWith(files', lang)]_vars

\* C30 (no record without a file): when a pass over a tree left alone since
\* it began completes, every record of the store is the record of a file that
\* the scanner yielded in that pass; the record of a file deleted from the
\* tree, or ignored, since an earlier pass is gone.
C30_RecordsAreScannedFiles ==
    [][(IndexDirectoryFinish /\ ~dirty) =>
          \A r \in files' : r.path \in Range(processed) /\ r.path \in ScanFiles]_vars

====
